---------------------------- MODULE Spec2Model ----------------------------
(***************************************************************************)
(* A model of mhashtable 0.9.5 (src/mhashtable.c): a chained hashtable     *)
(* with unsigned-integer or string keys, managed or raw values, an         *)
(* instance registry (mht_entries), a snapshot registry                    *)
(* (all_get_arr_entries) and one global lock.                              *)
(*                                                                         *)
(* The model is of the 64-bit build (SIZE_MAX > UINT32_MAX): size_t and    *)
(* uint_keyt are 64 bits wide.  TLC's integers are 32 bits wide, so every  *)
(* computation that depends on the width (the hash functions, the          *)
(* rounding of a requested size) is done on vectors of 64 bits.            *)
(***************************************************************************)
EXTENDS Integers, Sequences, FiniteSets, TLC

(***************************************************************************)
(* 64-bit unsigned arithmetic.  A word is a tuple of WORD bits, bit i of   *)
(* the C value at position i + 1.                                          *)
(***************************************************************************)
WORD == 64

\* A local variable of a function: Op with v for its parameter.  The value is
\* computed once, however often the body uses it.
Let(v, Op(_)) == Op(v)

\* The 8 bits of a byte s, lowest first, and the byte at bits o+1..o+8 of a.
Bits8(s) ==
    <<s % 2, (s \div 2) % 2, (s \div 4) % 2, (s \div 8) % 2,
      (s \div 16) % 2, (s \div 32) % 2, (s \div 64) % 2, (s \div 128) % 2>>

Byte(a, o) ==
    a[o + 1] + 2 * a[o + 2] + 4 * a[o + 3] + 8 * a[o + 4]
        + 16 * a[o + 5] + 32 * a[o + 6] + 64 * a[o + 7] + 128 * a[o + 8]

\* The word holding the natural number n (n < 2^31).
BV(n) ==
    Bits8(n % 256) \o Bits8((n \div 256) % 256) \o Bits8((n \div 65536) % 256)
        \o Bits8(n \div 16777216) \o Bits8(0) \o Bits8(0) \o Bits8(0) \o Bits8(0)

\* The word with bit i given by f[i], built byte by byte.
Strict8(f, o) ==
    <<f[o + 1], f[o + 2], f[o + 3], f[o + 4], f[o + 5], f[o + 6], f[o + 7], f[o + 8]>>

Strict(f) ==
    Strict8(f, 0) \o Strict8(f, 8) \o Strict8(f, 16) \o Strict8(f, 24)
        \o Strict8(f, 32) \o Strict8(f, 40) \o Strict8(f, 48) \o Strict8(f, 56)

BVNot(a) == Strict([i \in 1..WORD |-> 1 - a[i]])
BVXor(a, b) == Strict([i \in 1..WORD |-> (a[i] + b[i]) % 2])
BVOr(a, b) == Strict([i \in 1..WORD |-> IF a[i] + b[i] > 0 THEN 1 ELSE 0])
BVAnd(a, b) == Strict([i \in 1..WORD |-> a[i] * b[i]])
BVShl(a, k) == Strict([i \in 1..WORD |-> IF i > k THEN a[i - k] ELSE 0])
BVShr(a, k) == Strict([i \in 1..WORD |-> IF i + k <= WORD THEN a[i + k] ELSE 0])

\* Addition byte by byte from bit o + 1, with the carry into it.
RECURSIVE AddFrom(_, _, _, _)
AddFrom(a, b, o, carry) ==
    IF o >= WORD THEN <<>>
    ELSE Let(Byte(a, o) + Byte(b, o) + carry, LAMBDA s :
             Bits8(s % 256) \o AddFrom(a, b, o + 8, s \div 256))

\* a + b modulo 2^64.
BVAdd(a, b) == AddFrom(a, b, 0, 0)

BVZero == BV(0)
BVOnes == BVNot(BVZero)
\* a - 1 modulo 2^64.
BVDec(a) == BVAdd(a, BVOnes)
BVInc(a) == BVAdd(a, BV(1))

\* The number held by the low 30 bits of a word.
LowNat(a) ==
    Byte(a, 0) + 256 * Byte(a, 8) + 65536 * Byte(a, 16)
        + 16777216 * (a[25] + 2 * a[26] + 4 * a[27] + 8 * a[28] + 16 * a[29] + 32 * a[30])

\* Whether the word is a number below 2^30 (one TLC can hold).
IsSmall(a) == \A i \in 31..WORD : a[i] = 0

(***************************************************************************)
(* Hash functions.                                                         *)
(***************************************************************************)
wang_hash64(num) ==
    Let(BVAdd(BVNot(num), BVShl(num, 21)), LAMBDA n1 :
    Let(BVXor(n1, BVShr(n1, 24)), LAMBDA n2 :
    Let(BVAdd(BVAdd(n2, BVShl(n2, 3)), BVShl(n2, 8)), LAMBDA n3 :
    Let(BVXor(n3, BVShr(n3, 14)), LAMBDA n4 :
    Let(BVAdd(BVAdd(n4, BVShl(n4, 2)), BVShl(n4, 4)), LAMBDA n5 :
    Let(BVXor(n5, BVShr(n5, 28)), LAMBDA n6 :
    Let(BVAdd(n6, BVShl(n6, 31)), LAMBDA n7 :
        n7)))))))

RECURSIVE djb2_from(_, _, _, _)
djb2_from(str, len, i, hash) ==
    IF i > len \/ i > Len(str) THEN hash
    ELSE IF str[i] = 0 THEN hash
    ELSE djb2_from(str, len, i + 1,
                   BVAdd(BVAdd(BVShl(hash, 5), hash), BV(str[i])))

\* str is the tuple of bytes at the key's pointer.
djb2_hash64n(str, len) == djb2_from(str, len, 1, BV(5381))


(***************************************************************************)
(* Bounds of the model.                                                    *)
(***************************************************************************)
\* Unsigned keys the callers use: 1..MaxKey.
MaxKey == 2
\* Addresses the allocator can give to a user table.
MaxTables == 2
\* Sizes the callers request from create: 0..MaxSize.
MaxSize == 2
\* Blocks of the heap the library takes its value copies from.
MaxBlocks == 3
\* Snapshot arrays there can be at a time.
MaxArrays == 1
\* Heap blocks the callers allocate for the values they store raw.
MaxCallerBlocks == 1
\* Public calls the callers make in one run of the process.
MaxCalls == 4
\* Blocks of the heap mutils_strndup takes the copies of the keys from.
MaxKeyBlocks == 2

(***************************************************************************)
(* Program constants.                                                      *)
(***************************************************************************)
NULL == 0
LOAD_FACTOR_NUM == 3
LOAD_FACTOR_DEN == 4
MHT_ENTRIES_INITIAL_SIZE == 256
MHT_ENTRIES_TRIAL == 4
ALL_GET_ARR_INITIAL_SIZE == 16

KEY_TYPE_UINT == "KEY_TYPE_UINT"
KEY_TYPE_STR == "KEY_TYPE_STR"

(***************************************************************************)
(* The address space.  Addresses are small numbers; what the allocator     *)
(* returns is any address not in use.  The addresses of tables are hashed  *)
(* (they are the keys of mht_entries), so the pool holds addresses that    *)
(* fall into one bucket of the 256 of mht_entries (9, 20, 38, 84), while   *)
(* all_get_arr_entries (33) falls into another; the addresses of snapshot  *)
(* arrays are the keys of all_get_arr_entries and fall into one bucket of  *)
(* its 16.                                                                 *)
(***************************************************************************)
TableAddrPool == <<9, 20, 38, 84>>
TableAddrs == {TableAddrPool[i] : i \in 1..MaxTables}
\* Where calloc puts the two registries (allocated once, freed at exit).
REG_ADDR == 389
SNAP_ADDR == 33
AllTableAddrs == TableAddrs \cup {REG_ADDR, SNAP_ADDR}

\* Snapshot arrays (the results of calloc in _mht_all_get).
ArrAddrPool == <<51, 73, 75>>
ArrAddrs == {ArrAddrPool[i] : i \in 1..MaxArrays}
\* Heap blocks for the copies of managed values.
LibBlocks == {100 + i : i \in 1..MaxBlocks}
\* Heap blocks for the copies of the MHtTrackEntry records in mht_entries,
\* one for each table there can be.
TrackBlocks == {120 + i : i \in 1..(MaxTables + 1)}
\* The MHtTrackEntry mht_entry of a create call, in automatic storage: its
\* content is the address of the table.
TrackLocal(ht) == 1000 + ht
\* Heap blocks the caller allocated itself and stores with set_raw.
CallerBlocks == {140 + i : i \in 1..MaxCallerBlocks}
\* Buffers of the caller that are never freed (static or automatic storage),
\* the value_data of a managed set; buffer 160 + c holds the content c.
Contents == {1, 2}
StaticBuf(c) == 160 + c
StaticBufs == {StaticBuf(c) : c \in Contents}
\* Heap blocks for the copies of the string keys (mutils_strndup).
KeyBlocks == {180 + i : i \in 1..MaxKeyBlocks}
\* The buffer in which a caller builds the string key of a call: it holds the
\* key during the call; afterwards the caller overwrites or frees it.
CALLER_KEY == 170
HeapAddrs == LibBlocks \cup TrackBlocks \cup CallerBlocks \cup ArrAddrs \cup KeyBlocks

UintKeys == 1..MaxKey

(***************************************************************************)
(* String keys: str_keyt {ptr, len}.  ptr is the tuple of the bytes at the *)
(* pointer, terminator included; the null pointer is the empty tuple.      *)
(***************************************************************************)
NULLSTR == <<>>
StrKey(p, n) == [ptr |-> p, len |-> n]
NoStr == StrKey(NULLSTR, 0)
\* "a", "b", ... and, not valid, the null key STR_KEYT_INVALID.
StrKeyPool == <<StrKey(<<97, 0>>, 1), StrKey(<<98, 0>>, 1), StrKey(<<99, 0>>, 1),
                StrKey(<<100, 0>>, 1)>>
ValidStrKeys == {StrKeyPool[i] : i \in 1..MaxKey}
StrKeys == ValidStrKeys \cup {NoStr}

\* KeyUni: the tagged union of the two kinds of key.
UintKeyUni(k) == [key_type |-> KEY_TYPE_UINT, uint |-> k, str |-> NoStr]
StrKeyUni(k) == [key_type |-> KEY_TYPE_STR, uint |-> 0, str |-> k]

RECURSIVE strnlen_from(_, _, _)
strnlen_from(p, n, i) ==
    IF i > n \/ i > Len(p) THEN i - 1
    ELSE IF p[i] = 0 THEN i - 1
    ELSE strnlen_from(p, n, i + 1)

mutils_strnlen(p, n) == strnlen_from(p, n, 1)

\* A new buffer with the first n bytes of p (up to a terminator) and a terminator.
mutils_strndup(p, n) == SubSeq(p, 1, mutils_strnlen(p, n)) \o <<0>>

mht_str_key_is_valid(key) ==
    IF key.ptr = NULLSTR THEN FALSE
    ELSE IF key.ptr[1] = 0 THEN FALSE
    ELSE IF key.len = 0 THEN FALSE
    ELSE IF mutils_strnlen(key.ptr, key.len) < key.len THEN FALSE
    ELSE TRUE

\* memcmp over a.len bytes.
str_key_equal(a, b) ==
    a.len = b.len /\ SubSeq(a.ptr, 1, a.len) = SubSeq(b.ptr, 1, a.len)

(***************************************************************************)
(* Bucket indexes.  The hash of every key the model uses is computed once. *)
(***************************************************************************)
\* hash ^ (hash >> 32), as a word.
Fold(hash) == BVXor(hash, BVShr(hash, 32))

HashedUints == UintKeys \cup AllTableAddrs \cup ArrAddrs
UintFoldTable == {<<k, LowNat(Fold(wang_hash64(BV(k))))>> : k \in HashedUints}
StrFoldTable ==
    {<<k, LowNat(Fold(djb2_hash64n(k.ptr, k.len)))>> : k \in ValidStrKeys}

UintFold(k) == (CHOOSE p \in UintFoldTable : p[1] = k)[2]
StrFold(k) == (CHOOSE p \in StrFoldTable : p[1] = k)[2]

RECURSIVE BitAndNat(_, _)
BitAndNat(a, b) ==
    IF a = 0 \/ b = 0 THEN 0
    ELSE (a % 2) * (b % 2) + 2 * BitAndNat(a \div 2, b \div 2)

\* folded & (size - 1) for a size_t size below 2^30.  With size = 0 the mask
\* size - 1 is SIZE_MAX and the index is the folded hash itself.
MaskIndex(folded, size) ==
    IF size = 0 THEN folded ELSE BitAndNat(folded, size - 1)

hash_uint_key(key, size) == MaskIndex(UintFold(key), size)

\* The index, and whether errno and mht_errfunc were set.
hash_str_key(key, size) ==
    IF key.ptr = NULLSTR \/ key.len = 0 \/ size = 0
    THEN [r |-> 0, err |-> TRUE]
    ELSE [r |-> MaskIndex(StrFold(StrKey(mutils_strndup(key.ptr, key.len), key.len)), size),
          err |-> FALSE]


(***************************************************************************)
(* The state of the library during a call: the context X.                  *)
(*   tbl    the MHashTable structures by address (NoTable: no table there) *)
(*   mem    the heap blocks that hold values and snapshot arrays           *)
(*   mht_entries, all_get_arr_entries   the two static registry pointers   *)
(*   errno, mht_errfunc   as the current call has set them ("" : not set)  *)
(*   oom    the allocation sites at which calloc fails during this call    *)
(*   nomem  whether an allocation has failed during this call              *)
(*   diag   whether the call has printed a diagnostic to stderr            *)
(*   ub     whether the call has run into undefined behaviour              *)
(*   exited whether the process has called exit                            *)
(*   ckey   the bytes in the caller's key buffer during this call           *)
(***************************************************************************)
NoTable == [buckets |-> <<>>, size |-> 0, count |-> 0, key_type |-> "none"]
NoBlock == [live |-> FALSE, data |-> 0]
\* A block for a key that is not allocated: it holds no bytes.
NoKeyBlock == [live |-> FALSE, data |-> NULLSTR]

TableAt(X, ht) == IF ht \in DOMAIN X.tbl THEN X.tbl[ht] ELSE NoTable

SetErrno(X, e) == [X EXCEPT !.errno = e]
SetErrfunc(X, f) == [X EXCEPT !.mht_errfunc = f]
\* fprintf(stderr, ...)
Diag(X) == [X EXCEPT !.diag = TRUE]
Undefined(X) == [X EXCEPT !.ub = TRUE]

\* MHtEntry: key is the union {uint, str}; the chain is the sequence of the
\* entries from the head (buckets[i]) along next.  key.str.ptr is an
\* address: of the copy of the key in a string table, NULL in another.
Entry(key, value_size, value) ==
    [key |-> [uint |-> key.uint, str |-> key.str],
     value_size |-> value_size, value |-> value]

\* The bytes at the pointer of a key: of the caller's buffer, or of a copy on
\* the heap; a block that is not allocated holds none.
KeyBytes(X, p) ==
    IF p = CALLER_KEY THEN X.ckey
    ELSE IF p \in KeyBlocks THEN X.mem[p].data
    ELSE NULLSTR

\* An entry and a chain as the code reads them, with the bytes of the keys
\* in the place of the pointers to them.
DerefEntry(X, entry) ==
    [entry EXCEPT !.key.str = StrKey(KeyBytes(X, entry.key.str.ptr), entry.key.str.len)]
DerefChain(X, chain) == [i \in 1..Len(chain) |-> DerefEntry(X, chain[i])]

\* buckets[i]: the array holds a chain for the indexes in its domain and
\* NULL for the others.
Chain(T, i) == IF i \in DOMAIN T.buckets THEN T.buckets[i] ELSE <<>>

SetChain(buckets, i, chain) ==
    Let(IF chain = <<>> THEN DOMAIN buckets \ {i}
               ELSE DOMAIN buckets \cup {i}, LAMBDA dom :
        [j \in dom |-> IF j = i THEN chain ELSE buckets[j]])

\* calloc of a value block at an allocation site: the lowest block not in
\* use, NULL when the site fails or the heap is exhausted.
FreeBlocks(X, pool) == {b \in pool : ~X.mem[b].live}

calloc(X, site, pool) ==
    IF site \in X.oom \/ FreeBlocks(X, pool) = {}
    THEN [X |-> [X EXCEPT !.nomem = TRUE], r |-> NULL]
    ELSE Let(CHOOSE b \in FreeBlocks(X, pool) : \A c \in FreeBlocks(X, pool) : b <= c, LAMBDA b :
             [X |-> [X EXCEPT !.mem[b] = [live |-> TRUE, data |-> 0]], r |-> b])

\* What a read of the value at pointer p gives; reading freed memory, or
\* what is no value at all, is undefined.
Readable(X, p) ==
    \/ p \in StaticBufs
    \/ \E ht \in AllTableAddrs : p = TrackLocal(ht)
    \/ p \in HeapAddrs /\ X.mem[p].live

ReadValue(X, p) ==
    IF p \in StaticBufs THEN CHOOSE c \in Contents : StaticBuf(c) = p
    ELSE IF \E ht \in AllTableAddrs : p = TrackLocal(ht)
    THEN CHOOSE ht \in AllTableAddrs : p = TrackLocal(ht)
    ELSE X.mem[p].data

\* memcpy(dst, src, value_size)
memcpy(X, dst, src) ==
    IF ~Readable(X, src) THEN Undefined(X)
    ELSE [X EXCEPT !.mem[dst].data = ReadValue(X, src)]

\* free(p): p must be a live heap block; free(NULL) does nothing.  Freeing
\* a block twice, or a pointer malloc never returned, is undefined.  The
\* record of a table is a heap block too (calloc(1, sizeof(MHashTable))):
\* free of a handle releases the record and nothing the table owns.
free(X, p) ==
    IF p = NULL THEN X
    ELSE IF p \in HeapAddrs /\ X.mem[p].live
    THEN [X EXCEPT !.mem[p] = IF p \in KeyBlocks THEN NoKeyBlock ELSE NoBlock]
    ELSE IF p \in TableAddrs /\ TableAt(X, p) # NoTable
    THEN [X EXCEPT !.tbl[p] = NoTable]
    ELSE Undefined(X)


(***************************************************************************)
(* Creation.                                                               *)
(***************************************************************************)
\* The sizes a caller may request, as words; HugeSize is 2^63 + 1.
HugeSize == BVInc(BVShl(BV(1), 63))
RequestSizes == 0..MaxSize
SmallSizes == {BV(n) : n \in RequestSizes}
InternalSizes == {BV(MHT_ENTRIES_INITIAL_SIZE), BV(ALL_GET_ARR_INITIAL_SIZE)}

mutils_is_power_of_two(n) == n # BVZero /\ BVAnd(n, BVDec(n)) = BVZero

\* (SIZE_MAX >> 1) + 1 is 2^63: n is above it when bit 63 and another are set.
mutils_next_power_of_two(n) ==
    IF n = BVZero THEN BV(1)
    ELSE IF n[WORD] = 1 /\ \E i \in 1..(WORD - 1) : n[i] = 1 THEN BVZero
    ELSE Let(BVDec(n), LAMBDA n0 :
         Let(BVOr(n0, BVShr(n0, 1)), LAMBDA n1 :
         Let(BVOr(n1, BVShr(n1, 2)), LAMBDA n2 :
         Let(BVOr(n2, BVShr(n2, 4)), LAMBDA n3 :
         Let(BVOr(n3, BVShr(n3, 8)), LAMBDA n4 :
         Let(BVOr(n4, BVShr(n4, 16)), LAMBDA n5 :
         Let(BVOr(n5, BVShr(n5, 32)), LAMBDA n6 :
             BVInc(n6))))))))

\* size > SIZE_MAX / sizeof(MHtEntry* ), that is size >= 2^61.
SizeTooLarge(size) == \E i \in (WORD - 2)..WORD : size[i] = 1

\* The size create gives the table, for every size the model requests.
AdjustedSizeTable ==
    {<<n, IF mutils_is_power_of_two(n) THEN n ELSE mutils_next_power_of_two(n)>> :
        n \in (SmallSizes \cup InternalSizes \cup {HugeSize}) \ {BVZero}}

AdjustedSize(size) == (CHOOSE p \in AdjustedSizeTable : p[1] = size)[2]

\* ht is what calloc(1, sizeof(MHashTable)) returns (NULL: it fails); site is
\* the allocation site of the bucket array.  calloc(0, ...) may return NULL
\* or a pointer: it is NULL when site fails.
mht_create_without_register_generic(X, size, key_type, ht, site) ==
    IF size = BVZero
    THEN [X |-> SetErrno(Diag(X), "EINVAL"), r |-> NULL]
    ELSE Let(AdjustedSize(size), LAMBDA adjusted :
             IF SizeTooLarge(adjusted)
             THEN [X |-> SetErrno(Diag(X), "EINVAL"), r |-> NULL]
             ELSE IF ht = NULL
             THEN [X |-> SetErrno(Diag([X EXCEPT !.nomem = TRUE]), "ENOMEM"), r |-> NULL]
             ELSE IF site \in X.oom
             THEN [X |-> SetErrno(Diag([X EXCEPT !.nomem = TRUE]), "ENOMEM"), r |-> NULL]
             ELSE [X |-> [X EXCEPT !.tbl[ht] =
                             [buckets |-> <<>>, size |-> LowNat(adjusted),
                              count |-> 0, key_type |-> key_type]],
                   r |-> ht])

(***************************************************************************)
(* Chains.                                                                 *)
(***************************************************************************)
KeyMatches(key_type, entry, key) ==
    \/ key_type = KEY_TYPE_UINT /\ entry.key.uint = key.uint
    \/ key_type = KEY_TYPE_STR /\ str_key_equal(entry.key.str, key.str)

\* The position in the chain of the first entry with the key, 0 if none.
RECURSIVE FindFrom(_, _, _, _)
FindFrom(chain, key_type, key, i) ==
    IF i > Len(chain) THEN 0
    ELSE IF KeyMatches(key_type, chain[i], key) THEN i
    ELSE FindFrom(chain, key_type, key, i + 1)

Find(chain, key_type, key) == FindFrom(chain, key_type, key, 1)

RemoveAt(chain, i) == SubSeq(chain, 1, i - 1) \o SubSeq(chain, i + 1, Len(chain))

\* The index of a key and the context after hash_str_key's error report.
KeyIndex(X, key_type, key, size) ==
    IF key_type = KEY_TYPE_UINT
    THEN [X |-> X, r |-> hash_uint_key(key.uint, size)]
    ELSE Let(hash_str_key(key.str, size), LAMBDA h :
             [X |-> IF h.err THEN SetErrfunc(SetErrno(X, "EINVAL"), "hash_str_key") ELSE X,
              r |-> h.r])

\* The indexes of the buckets that hold a chain, in the order of the loop
\* for (i = 0; i < size; i++).
RECURSIVE Ascending(_)
Ascending(S) ==
    IF S = {} THEN <<>>
    ELSE Let(CHOOSE m \in S : \A n \in S : m <= n, LAMBDA m :
             <<m>> \o Ascending(S \ {m}))

\* Every entry of the table in the order the loops over the buckets and
\* along the chains visit them.
RECURSIVE ConcatChains(_, _, _)
ConcatChains(buckets, order, i) ==
    IF i > Len(order) THEN <<>>
    ELSE buckets[order[i]] \o ConcatChains(buckets, order, i + 1)

AllEntries(T) == ConcatChains(T.buckets, Ascending(DOMAIN T.buckets), 1)


(***************************************************************************)
(* Validation and lookup.  Every function returns the context after the    *)
(* call (X) and its result (r).                                            *)
(***************************************************************************)
RECURSIVE mht_pre_execution_check(_, _)
RECURSIVE mht_get_without_lock_generic(_, _, _)

\* A validation that trusts every handle once the registry exists (it
\* leaves out the lookup of src/mhashtable.c:390-397).
CheckWithoutLookup(X, ht) ==
    IF ht = NULL
    THEN [X |-> SetErrno(Diag(X), "EINVAL"), r |-> FALSE]
    ELSE IF X.mht_entries = NULL
    THEN [X |-> SetErrno(Diag(X), "EPERM"), r |-> FALSE]
    ELSE [X |-> X, r |-> TRUE]

mht_uint_get_without_lock(X, ht, key) ==
    Let(mht_get_without_lock_generic(X, ht, UintKeyUni(key)), LAMBDA g :
        [X |-> IF g.r = NULL THEN SetErrfunc(g.X, "_mht_uint_get") ELSE g.X,
         r |-> g.r])

mht_pre_execution_check(X, ht) ==
    IF ht = NULL
    THEN [X |-> SetErrno(Diag(X), "EINVAL"), r |-> FALSE]
    ELSE IF X.mht_entries = NULL
    THEN [X |-> SetErrno(Diag(X), "EPERM"), r |-> FALSE]
    ELSE IF ht # X.mht_entries
    THEN Let(mht_uint_get_without_lock(X, X.mht_entries, ht), LAMBDA g :
             IF g.r = NULL
             THEN [X |-> SetErrno(Diag(g.X), "EINVAL"), r |-> FALSE]
             ELSE [X |-> g.X, r |-> TRUE])
    ELSE [X |-> X, r |-> TRUE]

\* The part of lookup, set and delete after the checks: the index of the key
\* in table ht and the position of its entry in the chain there (0: none).
\* Indexing the bucket array at or beyond its size is undefined, and so is
\* memcmp with a key whose copy has been freed.
Locate(X, ht, key) ==
    Let(X.tbl[ht], LAMBDA T :
    Let(KeyIndex(X, T.key_type, key, T.size), LAMBDA h :
        IF h.r >= T.size
        THEN [X |-> Undefined(h.X), index |-> h.r, pos |-> 0]
        ELSE Let(DerefChain(h.X, Chain(T, h.r)), LAMBDA chain :
                 IF T.key_type = KEY_TYPE_STR
                    /\ \E i \in 1..Len(chain) : chain[i].key.str.ptr = NULLSTR
                 THEN [X |-> Undefined(h.X), index |-> h.r, pos |-> 0]
                 ELSE [X |-> h.X, index |-> h.r,
                       pos |-> Find(chain, T.key_type, key)])))

\* A lookup that moves the entry it finds to the head of its chain.
GetMovesToFront(X, ht, key) ==
    Let(mht_pre_execution_check(X, ht), LAMBDA c :
        IF ~c.r THEN [X |-> c.X, r |-> NULL]
        ELSE IF TableAt(c.X, ht) = NoTable
        THEN [X |-> Undefined(c.X), r |-> NULL]
        ELSE IF c.X.tbl[ht].key_type # key.key_type
        THEN [X |-> SetErrno(Diag(c.X), "EINVAL"), r |-> NULL]
        ELSE Let(Locate(c.X, ht, key), LAMBDA l :
                 IF l.X.ub THEN [X |-> l.X, r |-> NULL]
                 ELSE IF l.pos # 0
                 THEN Let(Chain(l.X.tbl[ht], l.index), LAMBDA chain :
                          [X |-> [l.X EXCEPT !.tbl[ht].buckets =
                                     SetChain(l.X.tbl[ht].buckets, l.index,
                                              <<chain[l.pos]>> \o RemoveAt(chain, l.pos))],
                           r |-> chain[l.pos].value])
                 ELSE [X |-> SetErrno(Diag(l.X), "EINVAL"), r |-> NULL]))

mht_get_without_lock_generic(X, ht, key) ==
    Let(mht_pre_execution_check(X, ht), LAMBDA c :
        IF ~c.r THEN [X |-> c.X, r |-> NULL]
        ELSE IF TableAt(c.X, ht) = NoTable
        THEN [X |-> Undefined(c.X), r |-> NULL]
        ELSE IF c.X.tbl[ht].key_type # key.key_type
        THEN [X |-> SetErrno(Diag(c.X), "EINVAL"), r |-> NULL]
        ELSE Let(Locate(c.X, ht, key), LAMBDA l :
                 IF l.X.ub THEN [X |-> l.X, r |-> NULL]
                 ELSE IF l.pos # 0
                 THEN [X |-> l.X, r |-> Chain(l.X.tbl[ht], l.index)[l.pos].value]
                 ELSE [X |-> SetErrno(Diag(l.X), "EINVAL"), r |-> NULL]))

mht_str_get_without_lock(X, ht, key) ==
    IF ~mht_str_key_is_valid(key)
    THEN [X |-> SetErrfunc(SetErrno(Diag(X), "EINVAL"), "_mht_str_get"), r |-> NULL]
    ELSE Let(mht_get_without_lock_generic(X, ht, StrKeyUni(key)), LAMBDA g :
             [X |-> IF g.r = NULL THEN SetErrfunc(g.X, "_mht_str_get") ELSE g.X,
              r |-> g.r])

(***************************************************************************)
(* Rehash.                                                                 *)
(***************************************************************************)
\* A relinking that keeps every entry at the index it had in the old array.
RECURSIVE RelinkAtOldIndex(_, _, _, _, _, _)
RelinkAtOldIndex(X, new_buckets, chain, i, key_type, new_size) ==
    IF i > Len(chain) THEN new_buckets
    ELSE Let(chain[i], LAMBDA entry :
         Let(IF key_type = KEY_TYPE_UINT
                          THEN hash_uint_key(entry.key.uint, new_size \div 2)
                          ELSE hash_str_key(DerefEntry(X, entry).key.str, new_size \div 2).r,
             LAMBDA new_index :
         Let(IF new_index \in DOMAIN new_buckets
                    THEN new_buckets[new_index] ELSE <<>>, LAMBDA old :
             RelinkAtOldIndex(X, SetChain(new_buckets, new_index, <<entry>> \o old),
                              chain, i + 1, key_type, new_size))))

\* The entries of one chain, from the head, each linked at the head of its
\* chain in the new array.
RECURSIVE RelinkChain(_, _, _, _, _, _)
RelinkChain(X, new_buckets, chain, i, key_type, new_size) ==
    IF i > Len(chain) THEN new_buckets
    ELSE Let(chain[i], LAMBDA entry :
         Let(IF key_type = KEY_TYPE_UINT
                          THEN hash_uint_key(entry.key.uint, new_size)
                          ELSE hash_str_key(DerefEntry(X, entry).key.str, new_size).r,
             LAMBDA new_index :
         Let(IF new_index \in DOMAIN new_buckets
                    THEN new_buckets[new_index] ELSE <<>>, LAMBDA old :
             RelinkChain(X, SetChain(new_buckets, new_index, <<entry>> \o old),
                         chain, i + 1, key_type, new_size))))

\* A rehash that relinks the first chain it finds and forgets the others.
RelinkFirstChainOnly(X, new_buckets, T, order, i, new_size) ==
    IF i > Len(order) THEN new_buckets
    ELSE RelinkChain(X, new_buckets, T.buckets[order[i]], 1, T.key_type, new_size)

RECURSIVE RelinkBuckets(_, _, _, _, _, _)
RelinkBuckets(X, new_buckets, T, order, i, new_size) ==
    IF i > Len(order) THEN new_buckets
    ELSE RelinkBuckets(X,
             RelinkChain(X, new_buckets, T.buckets[order[i]], 1, T.key_type, new_size),
             T, order, i + 1, new_size)

\* A rehash that grows the array by one bucket instead of doubling it.
RehashByOne(X, ht, site) ==
    Let(X.tbl[ht], LAMBDA T :
    Let(T.size + 1, LAMBDA new_size :
        [X EXCEPT !.tbl[ht].buckets =
                      RelinkBuckets(X, <<>>, T, Ascending(DOMAIN T.buckets), 1, new_size),
                  !.tbl[ht].size = new_size]))

\* A rehash that has given up the old array when the new one cannot be had.
RehashDropsOnFailure(X, ht, site) ==
    Let(X.tbl[ht], LAMBDA T :
    Let(T.size * 2, LAMBDA new_size :
        IF site \in X.oom
        THEN [X EXCEPT !.tbl[ht].buckets = <<>>, !.nomem = TRUE]
        ELSE [X EXCEPT !.tbl[ht].buckets =
                           RelinkBuckets(X, <<>>, T, Ascending(DOMAIN T.buckets), 1, new_size),
                       !.tbl[ht].size = new_size]))

\* The sizes the model can hold are below 2^30, so neither of the two checks
\* against SIZE_MAX stops the doubling; site is where the new array is
\* allocated.
mht_rehash(X, ht, site) ==
    Let(X.tbl[ht], LAMBDA T :
    Let(T.size * 2, LAMBDA new_size :
        IF site \in X.oom
        THEN SetErrfunc(SetErrno(Diag([X EXCEPT !.nomem = TRUE]), "ENOMEM"), "mht_rehash")
        ELSE [X EXCEPT !.tbl[ht].buckets =
                           RelinkBuckets(X, <<>>, T, Ascending(DOMAIN T.buckets), 1, new_size),
                       !.tbl[ht].size = new_size]))


(***************************************************************************)
(* Set.  sites names the allocation sites of one call of mht_set_generic:  *)
(* the rehash array, the chain node, the copy of the key, the copy of the  *)
(* value, and the part of the heap the copy of the value comes from.       *)
(***************************************************************************)
Sites(prefix, pool) ==
    [rehash |-> <<prefix, "rehash">>, entry |-> <<prefix, "entry">>,
     key |-> <<prefix, "key">>, value |-> <<prefix, "value">>, pool |-> pool]

SetEntryValue(X, ht, index, pos, value, value_size) ==
    [X EXCEPT !.tbl[ht].buckets[index][pos].value = value,
              !.tbl[ht].buckets[index][pos].value_size = value_size]

\* An overwrite that reports success and keeps the old value.
OverwriteKeepsOld(X, ht, index, pos, value_data, value_size, sites) ==
    [X |-> X, r |-> TRUE]

\* An overwrite that stores the new value and leaves value_size as it was.
OverwriteKeepsMode(X, ht, index, pos, value_data, value_size, sites) ==
    Let(X.tbl[ht].buckets[index][pos], LAMBDA entry :
        IF value_size # 0
        THEN Let(calloc(X, sites.value, sites.pool), LAMBDA a :
                 IF a.r = NULL THEN [X |-> a.X, r |-> FALSE]
                 ELSE Let(free(a.X, entry.value), LAMBDA X1 :
                      Let(SetEntryValue(X1, ht, index, pos, a.r, entry.value_size), LAMBDA X2 :
                          [X |-> memcpy(X2, a.r, value_data), r |-> TRUE])))
        ELSE Let(free(X, entry.value), LAMBDA X1 :
                 [X |-> SetEntryValue(X1, ht, index, pos, value_data, entry.value_size),
                  r |-> TRUE]))

\* The key is present: its value is replaced.
OverwriteEntry(X, ht, index, pos, value_data, value_size, sites) ==
    Let(X.tbl[ht].buckets[index][pos], LAMBDA entry :
        IF value_size # 0
        THEN Let(calloc(X, sites.value, sites.pool), LAMBDA a :
                 IF a.r = NULL THEN [X |-> a.X, r |-> FALSE]
                 ELSE Let(free(a.X, entry.value), LAMBDA X1 :
                      Let(SetEntryValue(X1, ht, index, pos, a.r, entry.value_size), LAMBDA X2 :
                      Let(memcpy(X2, a.r, value_data), LAMBDA X3 :
                          [X |-> SetEntryValue(X3, ht, index, pos, a.r, value_size),
                           r |-> TRUE]))))
        ELSE Let(free(X, entry.value), LAMBDA X1 :
                 [X |-> SetEntryValue(X1, ht, index, pos, value_data, value_size),
                  r |-> TRUE]))

\* An insert that replaces the chain of the bucket by the new entry.
LinkAlone(X, ht, index, new_entry) ==
    Let(X.tbl[ht], LAMBDA T :
        [X EXCEPT !.tbl[ht].buckets = SetChain(T.buckets, index, <<new_entry>>),
                  !.tbl[ht].count = T.count + 1])

\* An insert that links the new entry at the end of the chain.
LinkAtTail(X, ht, index, new_entry) ==
    Let(X.tbl[ht], LAMBDA T :
        [X EXCEPT !.tbl[ht].buckets =
                      SetChain(T.buckets, index, Chain(T, index) \o <<new_entry>>),
                  !.tbl[ht].count = T.count + 1])

LinkAtHead(X, ht, index, new_entry) ==
    Let(X.tbl[ht], LAMBDA T :
        [X EXCEPT !.tbl[ht].buckets =
                      SetChain(T.buckets, index, <<new_entry>> \o Chain(T, index)),
                  !.tbl[ht].count = T.count + 1])

\* An insert that keeps the caller's pointer to the key and takes no copy.
DupKeyAliases(X, key_type, key, site) ==
    [X |-> X,
     r |-> [key EXCEPT !.str = IF key_type = KEY_TYPE_UINT THEN StrKey(NULL, 0)
                               ELSE StrKey(CALLER_KEY, key.str.len)],
     ok |-> TRUE]

\* The key of a new entry: in a string table a copy of the caller's bytes in
\* a buffer of its own (r: the key as stored; ok: the copy did not fail).
DupKey(X, key_type, key, site) ==
    IF key_type = KEY_TYPE_UINT
    THEN [X |-> X, r |-> [key EXCEPT !.str = StrKey(NULL, 0)], ok |-> TRUE]
    ELSE Let(calloc(X, site, KeyBlocks), LAMBDA k :
             IF k.r = NULL
             THEN [X |-> k.X, r |-> [key EXCEPT !.str = StrKey(NULL, 0)], ok |-> FALSE]
             ELSE [X |-> [k.X EXCEPT !.mem[k.r].data =
                                        mutils_strndup(key.str.ptr, key.str.len)],
                   r |-> [key EXCEPT !.str = StrKey(k.r, key.str.len)], ok |-> TRUE])

\* The key is absent: a new entry is linked at the head of the chain.
InsertEntry(X, ht, index, key, value_data, value_size, sites) ==
    Let(X.tbl[ht], LAMBDA T :
        IF sites.entry \in X.oom
        THEN [X |-> [X EXCEPT !.nomem = TRUE], r |-> FALSE]
        ELSE Let(DupKey(X, T.key_type, key, sites.key), LAMBDA k :
                 IF ~k.ok
                 THEN [X |-> SetErrno(k.X, "ENOMEM"), r |-> FALSE]
                 ELSE IF value_size # 0
                 THEN Let(calloc(k.X, sites.value, sites.pool), LAMBDA a :
                          IF a.r = NULL
                          THEN [X |-> SetErrno(free(a.X, k.r.str.ptr), "ENOMEM"),
                                r |-> FALSE]
                          ELSE [X |-> LinkAtHead(memcpy(a.X, a.r, value_data), ht, index,
                                                 Entry(k.r, value_size, a.r)),
                                r |-> TRUE])
                 ELSE [X |-> LinkAtHead(k.X, ht, index, Entry(k.r, value_size, value_data)),
                       r |-> TRUE]))

\* A growth trigger that never fires.
NeverOverLoadFactor(T) == FALSE

\* (double)count / (double)size > LOAD_FACTOR; 0 / 0 is a NaN, not above it.
OverLoadFactor(T) == T.count * LOAD_FACTOR_DEN > LOAD_FACTOR_NUM * T.size

\* A set that takes an unsigned key for a table of string keys.
SetWithoutKeyCheck(X, ht, key, value_data, value_size, sites) ==
    Let(mht_pre_execution_check(X, ht), LAMBDA c :
        IF ~c.r THEN [X |-> c.X, r |-> FALSE]
        ELSE IF value_data = NULL
        THEN [X |-> SetErrno(Diag(c.X), "EINVAL"), r |-> FALSE]
        ELSE IF TableAt(c.X, ht) = NoTable
        THEN [X |-> Undefined(c.X), r |-> FALSE]
        ELSE IF c.X.tbl[ht].key_type # key.key_type /\ key.key_type = KEY_TYPE_STR
        THEN [X |-> SetErrno(Diag(c.X), "EINVAL"), r |-> FALSE]
        ELSE Let(IF OverLoadFactor(c.X.tbl[ht])
                       THEN mht_rehash(c.X, ht, sites.rehash) ELSE c.X, LAMBDA X1 :
             Let(Locate(X1, ht, key), LAMBDA l :
                 IF l.X.ub THEN [X |-> l.X, r |-> FALSE]
                 ELSE IF l.pos # 0
                 THEN OverwriteEntry(l.X, ht, l.index, l.pos, value_data, value_size, sites)
                 ELSE InsertEntry(l.X, ht, l.index, key, value_data, value_size, sites))))

\* value_size = 0 is the raw mode.
mht_set_generic(X, ht, key, value_data, value_size, sites) ==
    Let(mht_pre_execution_check(X, ht), LAMBDA c :
        IF ~c.r THEN [X |-> c.X, r |-> FALSE]
        ELSE IF value_data = NULL
        THEN [X |-> SetErrno(Diag(c.X), "EINVAL"), r |-> FALSE]
        ELSE IF TableAt(c.X, ht) = NoTable
        THEN [X |-> Undefined(c.X), r |-> FALSE]
        ELSE IF c.X.tbl[ht].key_type # key.key_type
        THEN [X |-> SetErrno(Diag(c.X), "EINVAL"), r |-> FALSE]
        ELSE Let(IF OverLoadFactor(c.X.tbl[ht])
                       THEN mht_rehash(c.X, ht, sites.rehash) ELSE c.X, LAMBDA X1 :
             Let(Locate(X1, ht, key), LAMBDA l :
                 IF l.X.ub THEN [X |-> l.X, r |-> FALSE]
                 ELSE IF l.pos # 0
                 THEN OverwriteEntry(l.X, ht, l.index, l.pos, value_data, value_size, sites)
                 ELSE InsertEntry(l.X, ht, l.index, key, value_data, value_size, sites))))

mht_uint_set_raw_without_lock(X, ht, key, value_data, sites) ==
    Let(mht_set_generic(X, ht, UintKeyUni(key), value_data, 0, sites), LAMBDA s :
        [X |-> IF ~s.r THEN SetErrfunc(s.X, "_mht_uint_set_raw") ELSE s.X, r |-> s.r])

\* A managed set that takes a value_size of 0 for a raw set.
SetWithoutSizeCheck(X, ht, key, value_data, value_size, sites) ==
    Let(mht_set_generic(X, ht, UintKeyUni(key), value_data, value_size, sites), LAMBDA s :
        [X |-> IF ~s.r THEN SetErrfunc(s.X, "_mht_uint_set") ELSE s.X, r |-> s.r])

mht_uint_set_without_lock(X, ht, key, value_data, value_size, sites) ==
    IF value_size = 0 THEN [X |-> Diag(X), r |-> FALSE]
    ELSE Let(mht_set_generic(X, ht, UintKeyUni(key), value_data, value_size, sites), LAMBDA s :
             [X |-> IF ~s.r THEN SetErrfunc(s.X, "_mht_uint_set") ELSE s.X, r |-> s.r])

mht_str_set_raw_without_lock(X, ht, key, value_data, sites) ==
    IF ~mht_str_key_is_valid(key)
    THEN [X |-> SetErrfunc(SetErrno(Diag(X), "EINVAL"), "_mht_str_set_raw"), r |-> FALSE]
    ELSE Let(mht_set_generic(X, ht, StrKeyUni(key), value_data, 0, sites), LAMBDA s :
             [X |-> IF ~s.r THEN SetErrfunc(s.X, "_mht_str_set_raw") ELSE s.X, r |-> s.r])

mht_str_set_without_lock(X, ht, key, value_data, value_size, sites) ==
    IF value_size = 0 THEN [X |-> Diag(X), r |-> FALSE]
    ELSE IF ~mht_str_key_is_valid(key)
    THEN [X |-> SetErrfunc(SetErrno(Diag(X), "EINVAL"), "_mht_str_set"), r |-> FALSE]
    ELSE Let(mht_set_generic(X, ht, StrKeyUni(key), value_data, value_size, sites), LAMBDA s :
             [X |-> IF ~s.r THEN SetErrfunc(s.X, "_mht_str_set") ELSE s.X, r |-> s.r])

(***************************************************************************)
(* Delete.                                                                 *)
(***************************************************************************)
\* A delete that frees the value of a managed entry only.
DeleteKeepsRaw(X, ht, key) ==
    Let(mht_pre_execution_check(X, ht), LAMBDA c :
        IF ~c.r THEN [X |-> c.X, r |-> FALSE]
        ELSE IF TableAt(c.X, ht) = NoTable
        THEN [X |-> Undefined(c.X), r |-> FALSE]
        ELSE IF c.X.tbl[ht].key_type # key.key_type
        THEN [X |-> SetErrno(Diag(c.X), "EINVAL"), r |-> FALSE]
        ELSE Let(Locate(c.X, ht, key), LAMBDA l :
             Let(l.X.tbl[ht], LAMBDA T :
                 IF l.X.ub THEN [X |-> l.X, r |-> FALSE]
                 ELSE IF l.pos # 0
                 THEN Let(Chain(T, l.index), LAMBDA chain :
                      Let([l.X EXCEPT !.tbl[ht].buckets =
                                    SetChain(T.buckets, l.index, RemoveAt(chain, l.pos))], LAMBDA X1 :
                      Let(IF chain[l.pos].value_size # 0
                          THEN free(X1, chain[l.pos].value) ELSE X1, LAMBDA X2 :
                          [X |-> [X2 EXCEPT !.tbl[ht].count = T.count - 1], r |-> TRUE])))
                 ELSE [X |-> SetErrno(Diag(l.X), "EINVAL"), r |-> FALSE])))

mht_delete_without_lock_generic(X, ht, key) ==
    Let(mht_pre_execution_check(X, ht), LAMBDA c :
        IF ~c.r THEN [X |-> c.X, r |-> FALSE]
        ELSE IF TableAt(c.X, ht) = NoTable
        THEN [X |-> Undefined(c.X), r |-> FALSE]
        ELSE IF c.X.tbl[ht].key_type # key.key_type
        THEN [X |-> SetErrno(Diag(c.X), "EINVAL"), r |-> FALSE]
        ELSE Let(Locate(c.X, ht, key), LAMBDA l :
             Let(l.X.tbl[ht], LAMBDA T :
                 IF l.X.ub THEN [X |-> l.X, r |-> FALSE]
                 ELSE IF l.pos # 0
                 THEN Let(Chain(T, l.index), LAMBDA chain :
                      Let([l.X EXCEPT !.tbl[ht].buckets =
                                    SetChain(T.buckets, l.index, RemoveAt(chain, l.pos))], LAMBDA X1 :
                      Let(free(X1, chain[l.pos].value), LAMBDA X2 :
                          [X |-> [X2 EXCEPT !.tbl[ht].count = T.count - 1], r |-> TRUE])))
                 ELSE [X |-> SetErrno(Diag(l.X), "EINVAL"), r |-> FALSE])))

mht_uint_delete_without_lock(X, ht, key) ==
    Let(mht_delete_without_lock_generic(X, ht, UintKeyUni(key)), LAMBDA d :
        [X |-> IF ~d.r THEN SetErrfunc(d.X, "_mht_uint_delete") ELSE d.X, r |-> d.r])

mht_str_delete_without_lock(X, ht, key) ==
    IF ~mht_str_key_is_valid(key)
    THEN [X |-> SetErrfunc(SetErrno(Diag(X), "EINVAL"), "_mht_str_delete"), r |-> FALSE]
    ELSE Let(mht_delete_without_lock_generic(X, ht, StrKeyUni(key)), LAMBDA d :
             [X |-> IF ~d.r THEN SetErrfunc(d.X, "_mht_str_delete") ELSE d.X, r |-> d.r])


(***************************************************************************)
(* Registration of a new table, and the bootstrap of the registries.       *)
(***************************************************************************)
\* sizeof(MHtTrackEntry) without DEBUG: one pointer.
SizeofTrackEntry == WORD \div 8

RegWord == BV(MHT_ENTRIES_INITIAL_SIZE)
ArrWord == BV(ALL_GET_ARR_INITIAL_SIZE)

RECURSIVE mht_create_without_lock(_, _, _, _, _, _, _)
RECURSIVE init(_)

\* The loop of init: trial i (from 0) fails when the site Trial(i) does.
Trial(i) == <<"init", <<"trial 0", "trial 1", "trial 2", "trial 3">>[i + 1]>>

\* A bootstrap that gives up after the first trial.
InitTrialsOnce(X, i) ==
    Let(mht_create_without_register_generic(
                      X, RegWord, KEY_TYPE_UINT,
                      IF Trial(0) \in X.oom THEN NULL ELSE REG_ADDR,
                      <<"init", "buckets">>), LAMBDA c :
        [c.X EXCEPT !.mht_entries = c.r])

RECURSIVE InitTrials(_, _)
InitTrials(X, i) ==
    IF i >= MHT_ENTRIES_TRIAL THEN X
    ELSE Let(mht_create_without_register_generic(
                      X, RegWord, KEY_TYPE_UINT,
                      IF Trial(i) \in X.oom THEN NULL ELSE REG_ADDR,
                      <<"init", "buckets">>), LAMBDA c :
         Let([c.X EXCEPT !.mht_entries = c.r], LAMBDA X1 :
             IF c.r # NULL THEN X1 ELSE InitTrials(X1, i + 1)))

\* Must be called with the lock held.  When no trial succeeds it unlocks,
\* finalizes the lock and exits.
init(X) ==
    Let(InitTrials(X, 0), LAMBDA X1 :
        IF X1.mht_entries = NULL
        THEN [Diag(X1) EXCEPT !.exited = TRUE]
        ELSE Let([X1 EXCEPT !.atexit = TRUE], LAMBDA X2 :
             Let(mht_create_without_lock(
                          X2, ArrWord, KEY_TYPE_UINT,
                          IF <<"snap", "ht">> \in X2.oom THEN NULL ELSE SNAP_ADDR,
                          <<"snap", "buckets">>, Sites("snapreg", TrackBlocks),
                          "_mht_uint_create"), LAMBDA c :
             Let([c.X EXCEPT !.all_get_arr_entries = c.r], LAMBDA X3 :
                 IF c.r = NULL THEN SetErrfunc(Diag(X3), "init") ELSE X3))))

\* mht_uint_create_without_lock and mht_str_create_without_lock, which differ
\* in the key type and in the name they report (fname).
mht_create_without_lock(X, size, key_type, ht, site, regsites, fname) ==
    Let(mht_create_without_register_generic(X, size, key_type, ht, site), LAMBDA c :
        IF c.r = NULL THEN [X |-> SetErrfunc(c.X, fname), r |-> NULL]
        ELSE Let(IF c.X.mht_entries = NULL THEN init(c.X) ELSE c.X, LAMBDA X1 :
                 IF X1.exited THEN [X |-> X1, r |-> NULL]
                 ELSE Let(mht_uint_set_without_lock(
                                   X1, X1.mht_entries, c.r, TrackLocal(c.r),
                                   SizeofTrackEntry, regsites), LAMBDA s :
                          [X |-> IF ~s.r THEN SetErrfunc(Diag(s.X), fname) ELSE s.X,
                           r |-> c.r])))

mht_uint_create_without_lock(X, size, ht, site, regsites) ==
    mht_create_without_lock(X, size, KEY_TYPE_UINT, ht, site, regsites, "_mht_uint_create")

mht_str_create_without_lock(X, size, ht, site, regsites) ==
    mht_create_without_lock(X, size, KEY_TYPE_STR, ht, site, regsites, "_mht_str_create")

(***************************************************************************)
(* Destruction.                                                            *)
(***************************************************************************)
\* A destroy with values that frees none.
FreeNoValues(X, entries, i) == X

RECURSIVE FreeValues(_, _, _)
FreeValues(X, entries, i) ==
    IF i > Len(entries) THEN X
    ELSE FreeValues(free(X, entries[i].value), entries, i + 1)

\* free(entry->key.str.ptr) for each entry of a string table.
RECURSIVE FreeKeys(_, _, _)
FreeKeys(X, entries, i) ==
    IF i > Len(entries) THEN X
    ELSE FreeKeys(free(X, entries[i].key.str.ptr), entries, i + 1)

\* A destroy that frees the values whether it is asked to or not.
DestroyAlwaysFreesValues(X, ht, value_delete) ==
    IF TableAt(X, ht) = NoTable THEN Undefined(X)
    ELSE Let(FreeValues(X, AllEntries(X.tbl[ht]), 1), LAMBDA X1 :
         Let(IF X.tbl[ht].key_type = KEY_TYPE_STR
             THEN FreeKeys(X1, AllEntries(X.tbl[ht]), 1) ELSE X1, LAMBDA X2 :
             [X2 EXCEPT !.tbl[ht] = NoTable]))

\* Frees the entries (and, with value_delete, their values), the bucket
\* array and the table.
mht_destroy_value_choose_delete(X, ht, value_delete) ==
    IF TableAt(X, ht) = NoTable THEN Undefined(X)
    ELSE Let(IF value_delete THEN FreeValues(X, AllEntries(X.tbl[ht]), 1) ELSE X, LAMBDA X1 :
         Let(IF X.tbl[ht].key_type = KEY_TYPE_STR
             THEN FreeKeys(X1, AllEntries(X.tbl[ht]), 1) ELSE X1, LAMBDA X2 :
             [X2 EXCEPT !.tbl[ht] = NoTable]))

\* The part of _mht_destroy and _mht_destroy_without_value between mht_lock
\* and mht_unlock.
DestroyLocked(X, ht, value_delete, fname) ==
    Let(mht_pre_execution_check(X, ht), LAMBDA c :
        IF ~c.r THEN SetErrfunc(c.X, fname)
        ELSE Let(mht_destroy_value_choose_delete(c.X, ht, value_delete), LAMBDA X1 :
                 IF ht # X1.mht_entries
                 THEN mht_uint_delete_without_lock(X1, X1.mht_entries, ht).X
                 ELSE X1))

(***************************************************************************)
(* Snapshots.                                                              *)
(***************************************************************************)
\* A walk that writes the value of the first entry in every place.
ValuesRepeatFirst(entries) == [i \in 1..Len(entries) |-> entries[1].value]

\* values[idx++] = entry->value, over the chains in the order of the buckets.
ValuesOf(entries) ==
    [i \in 1..Len(entries) |-> entries[i].value]

\* _mht_all_get between mht_lock and its return.  values is what
\* calloc(ht->count, sizeof(void* )) returns (NULL: it fails; with a count of
\* 0 it may be either).  held: the function returns without mht_unlock.
AllGetLocked(X, ht, out_count_null, values) ==
    IF out_count_null
    THEN [X |-> SetErrfunc(SetErrno(Diag(X), "EINVAL"), "_mht_all_get"),
          r |-> NULL, count |-> 0, held |-> TRUE]
    ELSE Let(mht_pre_execution_check(X, ht), LAMBDA c :
             IF ~c.r
             THEN [X |-> SetErrfunc(c.X, "_mht_all_get"),
                   r |-> NULL, count |-> 0, held |-> FALSE]
             ELSE IF TableAt(c.X, ht) = NoTable
             THEN [X |-> Undefined(c.X), r |-> NULL, count |-> 0, held |-> FALSE]
             ELSE IF values = NULL
             THEN [X |-> SetErrfunc(SetErrno([c.X EXCEPT !.nomem = TRUE], "ENOMEM"),
                                    "_mht_all_get"),
                   r |-> NULL, count |-> 0, held |-> FALSE]
             ELSE Let(c.X.tbl[ht], LAMBDA T :
                  Let(AllEntries(T), LAMBDA entries :
                  Let([c.X EXCEPT !.mem[values] =
                                [live |-> TRUE, data |-> ValuesOf(entries)]], LAMBDA X1 :
                  Let(IF Len(entries) > T.count THEN Undefined(X1) ELSE X1, LAMBDA X2 :
                  Let(mht_uint_set_raw_without_lock(
                               X2, X2.all_get_arr_entries, values, values,
                               Sites("snapset", LibBlocks)), LAMBDA s :
                      [X |-> s.X, r |-> values, count |-> Len(entries), held |-> FALSE]))))))


(***************************************************************************)
(* The exit sweep.                                                         *)
(***************************************************************************)
\* The loop of quit over the entries of mht_entries, as they were when the
\* loop reached their bucket: each table found is destroyed, which unlinks
\* the entry the loop stands on after its successor was read.
RECURSIVE QuitSweep(_, _, _)
QuitSweep(X, entries, i) ==
    IF i > Len(entries) THEN X
    ELSE IF ~Readable(X, entries[i].value) THEN Undefined(X)
    ELSE QuitSweep(DestroyLocked(X, ReadValue(X, entries[i].value), TRUE, "_mht_destroy"),
                   entries, i + 1)

\* A quit that destroys the Instance Registry before the tables it names.
QuitRegistryFirst(X) ==
    Let(DestroyLocked(X, X.all_get_arr_entries, TRUE, "_mht_destroy"), LAMBDA X1 :
    Let([X1 EXCEPT !.all_get_arr_entries = NULL], LAMBDA X2 :
    Let(DestroyLocked(X2, X2.mht_entries, TRUE, "_mht_destroy"), LAMBDA X3 :
    Let([X3 EXCEPT !.mht_entries = NULL], LAMBDA X4 :
        QuitSweep(X4, AllEntries(TableAt(X4, X4.mht_entries)), 1)))))

quit(X) ==
    Let(DestroyLocked(X, X.all_get_arr_entries, TRUE, "_mht_destroy"), LAMBDA X1 :
    Let([X1 EXCEPT !.all_get_arr_entries = NULL], LAMBDA X2 :
    Let(QuitSweep(X2, AllEntries(TableAt(X2, X2.mht_entries)), 1), LAMBDA X3 :
    Let(DestroyLocked(X3, X3.mht_entries, TRUE, "_mht_destroy"), LAMBDA X4 :
        [X4 EXCEPT !.mht_entries = NULL]))))


(***************************************************************************)
(* The state.                                                              *)
(*   tbl, mem, mht_entries, all_get_arr_entries, atexit, ub, exited        *)
(*          the fields of the context that outlive a call                  *)
(*   lock   the global lock: 0 when free, else the thread that holds it    *)
(*   life   of each table address: whether create never returned it, or    *)
(*          returned it (live) and a destroy has since accepted it         *)
(*   abs    what the successful calls so far have stored: for each handle  *)
(*          the keys set or deleted, each with the value last set and      *)
(*          whether a delete came after                                    *)
(*   th     the position of each thread inside a public operation          *)
(*   calls  how many public calls the callers have made                     *)
(***************************************************************************)
VARIABLES tbl, mem, mht_entries, all_get_arr_entries, atexit, ub, exited,
          lock, life, abs, th, calls

vars == <<tbl, mem, mht_entries, all_get_arr_entries, atexit, ub, exited,
          lock, life, abs, th, calls>>

Threads == {1, 2}
\* The single caller of the sequential specification.
Main == CHOOSE t \in Threads : \A u \in Threads : t <= u

\* sizeof of the values the callers store.
SizeofValue == WORD \div 8

NoKey == [key_type |-> "none", uint |-> 0, str |-> NoStr]

\* A call of a public function: its name and arguments.  size is the size_t
\* a create is asked for: a number, or HUGE for HugeSize, which is beyond the
\* integers of TLC.
HUGE == MaxSize + 1
SizeWord(n) == IF n = HUGE THEN HugeSize ELSE BV(n)

NoReq ==
    [op |-> "none", size |-> 0, ht |-> NULL, key |-> NoKey, value_data |-> NULL,
     value_size |-> 0, out_count_null |-> FALSE]

\* A thread outside any call.  Inside one it holds the call (req), the
\* allocation sites that fail during it (oom), what the allocator returns
\* for the table or the snapshot array (alloc) and, once read, the state the
\* call started from (snap).
Idle ==
    [pc |-> "idle", req |-> NoReq, oom |-> {}, alloc |-> NULL, snap |-> <<>>, got |-> NULL]

\* What the caller's heap blocks hold.
CallerData(b) == b - 140

InitMem ==
    [a \in HeapAddrs |->
        IF a \in CallerBlocks THEN [live |-> TRUE, data |-> CallerData(a)]
        ELSE IF a \in KeyBlocks THEN NoKeyBlock
        ELSE NoBlock]

Init ==
    /\ tbl = [a \in AllTableAddrs |-> NoTable]
    /\ mem = InitMem
    /\ mht_entries = NULL
    /\ all_get_arr_entries = NULL
    /\ atexit = FALSE
    /\ ub = FALSE
    /\ exited = FALSE
    /\ lock = 0
    /\ life = [a \in TableAddrs |-> "never"]
    /\ abs = [a \in TableAddrs |-> <<>>]
    /\ th = [t \in Threads |-> Idle]
    /\ calls = 0

\* The context at the start of a call; errno and mht_errfunc record what the
\* call itself sets.
Ctx(oom) ==
    [tbl |-> tbl, mem |-> mem, mht_entries |-> mht_entries,
     all_get_arr_entries |-> all_get_arr_entries, atexit |-> atexit,
     errno |-> "", mht_errfunc |-> "", oom |-> oom, nomem |-> FALSE,
     diag |-> FALSE, ub |-> ub, exited |-> exited, ckey |-> NULLSTR]

\* A lock that excludes nobody.
LockAlwaysAvailable(l) == TRUE

\* mht_lock blocks until the lock is free; the lock is not reentrant.
LockAvailable(l) == l = 0

\* The value of lock after global_lock_quit.
LOCK_FINALIZED == -1

\* The handles create has returned and no destroy has accepted.
handles == {a \in TableAddrs : life[a] = "live"}

\* The abstract map of a handle after a call.
AbsPut(m, key, v) == [k \in DOMAIN m \cup {key} |-> IF k = key THEN v ELSE m[k]]
AbsDel(m, key) == [m EXCEPT ![key].deleted = TRUE]

\* What a set stores: the content of the bytes copied, or in raw mode the
\* pointer itself.
StoredValue(X, value_data, value_size) ==
    IF value_size = 0 THEN [raw |-> TRUE, v |-> value_data, deleted |-> FALSE]
    ELSE [raw |-> FALSE, v |-> ReadValue(X, value_data), deleted |-> FALSE]

AbsAfter(req, X0, X, ok, ptr) ==
    IF req.op \in {"_mht_uint_create", "_mht_str_create"} /\ ptr # NULL
    THEN [abs EXCEPT ![ptr] = <<>>]
    ELSE IF req.op \in {"_mht_uint_set", "_mht_uint_set_raw", "_mht_str_set",
                        "_mht_str_set_raw"} /\ ok /\ req.ht \in TableAddrs
    THEN [abs EXCEPT ![req.ht] =
             AbsPut(@, req.key, StoredValue(X0, req.value_data, req.value_size))]
    ELSE IF req.op \in {"_mht_uint_delete", "_mht_str_delete"} /\ ok /\ req.ht \in TableAddrs
    THEN [abs EXCEPT ![req.ht] = AbsDel(@, req.key)]
    ELSE IF req.op \in {"_mht_destroy", "_mht_destroy_without_value"}
            /\ X.mht_errfunc = "" /\ req.ht \in TableAddrs
    THEN [abs EXCEPT ![req.ht] = <<>>]
    ELSE abs

LifeAfter(req, X, ptr) ==
    IF req.op \in {"_mht_uint_create", "_mht_str_create"} /\ ptr # NULL
    THEN [life EXCEPT ![ptr] = "live"]
    ELSE IF req.op \in {"_mht_destroy", "_mht_destroy_without_value"}
            /\ X.mht_errfunc = "" /\ req.ht \in TableAddrs
    THEN [life EXCEPT ![req.ht] = "destroyed"]
    ELSE life

\* The end of a public call by thread t: the context X becomes the state and
\* the call returns ptr or ok to the caller; held tells that the function
\* returned without mht_unlock.  A call in which the process exits does not
\* return.
Return(t, req, X0, X, held, ptr, ok) ==
    /\ tbl' = X.tbl
    /\ mem' = X.mem
    /\ mht_entries' = X.mht_entries
    /\ all_get_arr_entries' = X.all_get_arr_entries
    /\ atexit' = X.atexit
    /\ ub' = X.ub
    /\ exited' = X.exited
    /\ lock' = IF held THEN t ELSE 0
    /\ life' = IF X.exited THEN life ELSE LifeAfter(req, X, ptr)
    /\ abs' = IF X.exited THEN abs ELSE AbsAfter(req, X0, X, ok, ptr)

Req(op, ht, key, value_data, value_size) ==
    [NoReq EXCEPT !.op = op, !.ht = ht, !.key = key, !.value_data = value_data,
                  !.value_size = value_size]
CreateReq(op, size) == [NoReq EXCEPT !.op = op, !.size = size]
AllGetReq(ht, out_count_null) ==
    [NoReq EXCEPT !.op = "_mht_all_get", !.ht = ht, !.out_count_null = out_count_null]

\* The calls by the kind of their key.
ValidKeys == {UintKeyUni(k) : k \in UintKeys} \cup {StrKeyUni(k) : k \in ValidStrKeys}

IsUint(key) == key.key_type = KEY_TYPE_UINT

GetReq(ht, key) ==
    Req(IF IsUint(key) THEN "_mht_uint_get" ELSE "_mht_str_get", ht, key, NULL, 0)
DeleteReq(ht, key) ==
    Req(IF IsUint(key) THEN "_mht_uint_delete" ELSE "_mht_str_delete", ht, key, NULL, 0)
SetReq(ht, key, value_data) ==
    Req(IF IsUint(key) THEN "_mht_uint_set" ELSE "_mht_str_set", ht, key, value_data,
        SizeofValue)
SetRawReq(ht, key, value_data) ==
    Req(IF IsUint(key) THEN "_mht_uint_set_raw" ELSE "_mht_str_set_raw", ht, key,
        value_data, 0)

\* The results of the public functions, by kind.
Ptr(e) == [X |-> e.X, held |-> FALSE, ptr |-> e.r, ok |-> e.r # NULL, count |-> 0]
Bool(e) == [X |-> e.X, held |-> FALSE, ptr |-> NULL, ok |-> e.r, count |-> 0]
Void(X) == [X |-> X, held |-> FALSE, ptr |-> NULL, ok |-> X.mht_errfunc = "", count |-> 0]

\* The context of a call with a string key: the caller's buffer holds the
\* bytes of the key until the call returns.
WithKey(X, req) == [X EXCEPT !.ckey = req.key.str.ptr]

\* The body of the public function req.op between mht_lock and the return,
\* from the context X.
Exec(req, X, alloc) ==
    CASE req.op = "_mht_uint_create" ->
            Ptr(mht_uint_create_without_lock(X, SizeWord(req.size), alloc, <<"user", "buckets">>,
                                             Sites("reg", TrackBlocks)))
      [] req.op = "_mht_str_create" ->
            Ptr(mht_str_create_without_lock(X, SizeWord(req.size), alloc, <<"user", "buckets">>,
                                            Sites("reg", TrackBlocks)))
      [] req.op = "_mht_uint_set" ->
            Bool(mht_uint_set_without_lock(X, req.ht, req.key.uint, req.value_data,
                                           req.value_size, Sites("set", LibBlocks)))
      [] req.op = "_mht_uint_set_raw" ->
            Bool(mht_uint_set_raw_without_lock(X, req.ht, req.key.uint, req.value_data,
                                               Sites("set", LibBlocks)))
      [] req.op = "_mht_str_set" ->
            Bool(mht_str_set_without_lock(WithKey(X, req), req.ht, req.key.str, req.value_data,
                                          req.value_size, Sites("set", LibBlocks)))
      [] req.op = "_mht_str_set_raw" ->
            Bool(mht_str_set_raw_without_lock(WithKey(X, req), req.ht, req.key.str, req.value_data,
                                              Sites("set", LibBlocks)))
      [] req.op = "_mht_uint_get" ->
            Ptr(mht_uint_get_without_lock(X, req.ht, req.key.uint))
      [] req.op = "_mht_str_get" ->
            Ptr(mht_str_get_without_lock(WithKey(X, req), req.ht, req.key.str))
      [] req.op = "_mht_uint_delete" ->
            Bool(mht_uint_delete_without_lock(X, req.ht, req.key.uint))
      [] req.op = "_mht_str_delete" ->
            Bool(mht_str_delete_without_lock(WithKey(X, req), req.ht, req.key.str))
      [] req.op = "_mht_all_get" ->
            Let(AllGetLocked(X, req.ht, req.out_count_null, alloc), LAMBDA e :
                [X |-> e.X, held |-> e.held, ptr |-> e.r, ok |-> e.r # NULL,
                 count |-> e.count])
      [] req.op = "_mht_all_release_arr" ->
            Bool(mht_uint_delete_without_lock(X, req.ht, req.key.uint))
      [] req.op = "_mht_destroy" ->
            Void(DestroyLocked(X, req.ht, TRUE, "_mht_destroy"))
      [] req.op = "_mht_destroy_without_value" ->
            Void(DestroyLocked(X, req.ht, FALSE, "_mht_destroy_without_value"))

(***************************************************************************)
(* The sequential specification: one caller, every public call one step.   *)
(***************************************************************************)
Call(t, req, oom, alloc) ==
    /\ ~ub /\ ~exited
    /\ calls < MaxCalls
    /\ calls' = calls + 1
    /\ th[t].pc = "idle"
    /\ LockAvailable(lock)
    /\ Let(Ctx(oom), LAMBDA X0 :
       Let(Exec(req, X0, alloc), LAMBDA e :
           Return(t, req, X0, e.X, e.held, e.ptr, e.ok)))
    /\ UNCHANGED th

\* What a caller may pass as a handle: a table address (live, stale or never
\* returned) or NULL.
HandleArgs == TableAddrs \cup {NULL}

Lowest(S) == CHOOSE a \in S : \A b \in S : a <= b

\* What calloc(1, sizeof(MHashTable)) may return: NULL, or the lowest address
\* that holds no table.
FreeTableAddrs == {a \in TableAddrs : tbl[a] = NoTable}
CreateAllocs == {NULL} \cup (IF FreeTableAddrs = {} THEN {} ELSE {Lowest(FreeTableAddrs)})

\* The allocation failures of one call: none, or one site; and for the first
\* create one or all of the trials of init.
AllTrials == {Trial(i) : i \in 0..(MHT_ENTRIES_TRIAL - 1)}
CreateOoms ==
    {{}, {<<"user", "buckets">>}, {<<"reg", "entry">>}, {<<"reg", "value">>},
     {Trial(0)}, AllTrials, {<<"snap", "ht">>}, {<<"snap", "buckets">>},
     {<<"snapreg", "entry">>}}
SetOoms ==
    {{}, {<<"set", "rehash">>}, {<<"set", "entry">>}, {<<"set", "key">>},
     {<<"set", "value">>}}

\* value_data and value_size of a managed set: a buffer of the caller, and
\* the two arguments the function rejects.
ManagedArgs ==
    {<<StaticBuf(c), SizeofValue>> : c \in Contents}
        \cup {<<NULL, SizeofValue>>, <<StaticBuf(1), 0>>}

\* value_data of a raw set: NULL, or a block of the caller's that is
\* allocated and that no table holds.
HeldValues ==
    UNION {{AllEntries(tbl[a])[i].value : i \in 1..Len(AllEntries(tbl[a]))} :
              a \in TableAddrs}
RawArgs == {NULL} \cup {b \in CallerBlocks : mem[b].live /\ b \notin HeldValues}

\* What calloc(count, sizeof(void* )) may return in _mht_all_get.
FreeArrAddrs == {a \in ArrAddrs : ~mem[a].live}
AllGetAllocs == {NULL} \cup (IF FreeArrAddrs = {} THEN {} ELSE {Lowest(FreeArrAddrs)})

\* The arguments and allocation results of the creates: every size with no
\* failure, and each failure with the size 1.
CreateInputs ==
    {<<n, a, {}>> : n \in RequestSizes, a \in CreateAllocs}
        \cup {<<1, a, oom>> : a \in CreateAllocs, oom \in CreateOoms}

\* The values and allocation failures of the sets.
ManagedInputs ==
    {<<a[1], a[2], {}>> : a \in ManagedArgs}
        \cup {<<StaticBuf(1), SizeofValue, oom>> : oom \in SetOoms}
RawInputs ==
    {<<v, {}>> : v \in RawArgs}
        \cup {<<v, oom>> : v \in RawArgs \ {NULL}, oom \in SetOoms \ {{<<"set", "value">>}}}

UintCreate ==
    \E i \in CreateInputs :
        Call(Main, CreateReq("_mht_uint_create", i[1]), i[3], i[2])

StrCreate ==
    \E i \in CreateInputs :
        Call(Main, CreateReq("_mht_str_create", i[1]), i[3], i[2])

UintSet ==
    \E ht \in HandleArgs, key \in UintKeys, i \in ManagedInputs :
        Call(Main, Req("_mht_uint_set", ht, UintKeyUni(key), i[1], i[2]), i[3], NULL)

UintSetRaw ==
    \E ht \in HandleArgs, key \in UintKeys, i \in RawInputs :
        Call(Main, Req("_mht_uint_set_raw", ht, UintKeyUni(key), i[1], 0), i[2], NULL)

StrSet ==
    \E ht \in HandleArgs, key \in StrKeys, i \in ManagedInputs :
        Call(Main, Req("_mht_str_set", ht, StrKeyUni(key), i[1], i[2]), i[3], NULL)

StrSetRaw ==
    \E ht \in HandleArgs, key \in StrKeys, i \in RawInputs :
        Call(Main, Req("_mht_str_set_raw", ht, StrKeyUni(key), i[1], 0), i[2], NULL)

UintGet ==
    \E ht \in HandleArgs, key \in UintKeys :
        Call(Main, Req("_mht_uint_get", ht, UintKeyUni(key), NULL, 0), {}, NULL)

StrGet ==
    \E ht \in HandleArgs, key \in StrKeys :
        Call(Main, Req("_mht_str_get", ht, StrKeyUni(key), NULL, 0), {}, NULL)

UintDelete ==
    \E ht \in HandleArgs, key \in UintKeys :
        Call(Main, Req("_mht_uint_delete", ht, UintKeyUni(key), NULL, 0), {}, NULL)

StrDelete ==
    \E ht \in HandleArgs, key \in StrKeys :
        Call(Main, Req("_mht_str_delete", ht, StrKeyUni(key), NULL, 0), {}, NULL)

AllGet ==
    \E ht \in HandleArgs, out_count_null \in BOOLEAN, alloc \in AllGetAllocs,
       oom \in {{}, {<<"snapset", "entry">>}} :
        Call(Main, AllGetReq(ht, out_count_null), oom, alloc)

\* _mht_all_release_arr reads all_get_arr_entries and calls _mht_uint_delete.
AllReleaseArr ==
    \E values \in ArrAddrs :
        Call(Main, Req("_mht_all_release_arr", all_get_arr_entries, UintKeyUni(values),
                       NULL, 0), {}, NULL)

Destroy ==
    \E ht \in HandleArgs :
        Call(Main, Req("_mht_destroy", ht, NoKey, NULL, 0), {}, NULL)

DestroyWithoutValue ==
    \E ht \in HandleArgs :
        Call(Main, Req("_mht_destroy_without_value", ht, NoKey, NULL, 0), {}, NULL)

\* The process ends: quit runs if init registered it.  Each _mht_destroy of
\* quit takes the lock, and global_lock_quit is the last statement of quit.
Exit ==
    /\ ~ub /\ ~exited
    /\ th[Main].pc = "idle"
    /\ atexit => LockAvailable(lock)
    /\ Let(IF atexit THEN quit(Ctx({})) ELSE Ctx({}), LAMBDA X :
           /\ tbl' = X.tbl
           /\ mem' = X.mem
           /\ mht_entries' = X.mht_entries
           /\ all_get_arr_entries' = X.all_get_arr_entries
           /\ ub' = X.ub)
    /\ exited' = TRUE
    /\ lock' = IF atexit THEN LOCK_FINALIZED ELSE lock
    /\ UNCHANGED <<atexit, life, abs, th, calls>>

Next ==
    \/ UintCreate \/ StrCreate
    \/ UintSet \/ UintSetRaw \/ StrSet \/ StrSetRaw
    \/ UintGet \/ StrGet
    \/ UintDelete \/ StrDelete
    \/ AllGet \/ AllReleaseArr
    \/ Destroy \/ DestroyWithoutValue
    \/ Exit

Spec == Init /\ [][Next]_vars

(***************************************************************************)
(* A create asked for 2^63 + 1 buckets.                                    *)
(***************************************************************************)
HugeCreate ==
    \E op \in {"_mht_uint_create", "_mht_str_create"}, alloc \in CreateAllocs,
       oom \in {{}, {<<"user", "buckets">>}} :
        Call(Main, CreateReq(op, HUGE), oom, alloc)

NextHuge == Next \/ HugeCreate

SpecHuge == Init /\ [][NextHuge]_vars

(***************************************************************************)
(* Tables that hold, in raw mode, the handle of another table or an array   *)
(* a snapshot has returned.                                                *)
(***************************************************************************)
\* value_data of such a set: the handle of another live table, or a live
\* snapshot array, that no table of the caller holds.
NestArgs(ht) ==
    ((handles \ {ht}) \cup {a \in ArrAddrs : mem[a].live}) \ HeldValues

UintSetNested ==
    \E ht \in handles, key \in UintKeys :
        \E v \in NestArgs(ht) :
            Call(Main, Req("_mht_uint_set_raw", ht, UintKeyUni(key), v, 0), {}, NULL)

NextNest == Next \/ UintSetNested

SpecNest == Init /\ [][NextNest]_vars

(***************************************************************************)
(* The concurrent specification: the threads call the public functions at  *)
(* the same time.  A call is four steps: the thread enters the function    *)
(* (TCreate, TSet, TGet, TDelete, TRelease), takes the lock (TLock), reads   *)
(* the state the body works on (TRead), and writes what the body has made  *)
(* of it, unlocks and returns (TReturn).                                   *)
(*   pc = "called"   inside the function, before mht_lock                  *)
(*   pc = "reading"  at src/mhashtable.c:843, where _mht_all_release_arr   *)
(*                   reads all_get_arr_entries for its call of             *)
(*                   _mht_uint_delete, before mht_lock                     *)
(*   pc = "locked"   after mht_lock                                        *)
(*   pc = "running"  in the body                                           *)
(***************************************************************************)
Enter(t, pc, req) ==
    /\ ~ub /\ ~exited
    /\ th[t].pc = "idle"
    /\ calls < MaxCalls
    /\ calls' = calls + 1
    /\ th' = [th EXCEPT ![t] = [Idle EXCEPT !.pc = pc, !.req = req]]
    /\ UNCHANGED <<tbl, mem, mht_entries, all_get_arr_entries, atexit, ub, exited,
                   lock, life, abs>>

TCreate(t) ==
    \E size \in RequestSizes \ {0} : Enter(t, "called", CreateReq("_mht_uint_create", size))

TSet(t) ==
    \E ht \in TableAddrs, key \in UintKeys, c \in Contents :
        Enter(t, "called", SetReq(ht, UintKeyUni(key), StaticBuf(c)))

TGet(t) ==
    \E ht \in TableAddrs, key \in UintKeys :
        Enter(t, "called", GetReq(ht, UintKeyUni(key)))

TDelete(t) ==
    \E ht \in TableAddrs, key \in UintKeys :
        Enter(t, "called", DeleteReq(ht, UintKeyUni(key)))

TRelease(t) ==
    \E values \in ArrAddrs :
        Enter(t, "reading",
              Req("_mht_all_release_arr", all_get_arr_entries, UintKeyUni(values), NULL, 0))

\* mht_lock
TLock(t) ==
    /\ ~ub /\ ~exited
    /\ th[t].pc \in {"called", "reading"}
    /\ LockAvailable(lock)
    /\ lock' = t
    /\ th' = [th EXCEPT ![t].pc = "locked"]
    /\ UNCHANGED <<tbl, mem, mht_entries, all_get_arr_entries, atexit, ub, exited,
                   life, abs, calls>>

\* The body reads the state; alloc is what calloc will give a create.
TRead(t) ==
    /\ ~ub /\ ~exited
    /\ th[t].pc = "locked"
    /\ \E alloc \in (IF FreeTableAddrs = {} THEN {NULL} ELSE {Lowest(FreeTableAddrs)}) :
          th' = [th EXCEPT ![t].pc = "running", ![t].alloc = alloc,
                           ![t].snap = <<Ctx({})>>]
    /\ UNCHANGED <<tbl, mem, mht_entries, all_get_arr_entries, atexit, ub, exited,
                   lock, life, abs, calls>>

\* The body writes the state, and the function unlocks and returns.
TReturn(t) ==
    /\ ~ub /\ ~exited
    /\ th[t].pc = "running"
    /\ Let(th[t].snap[1], LAMBDA X0 :
       Let(Exec(th[t].req, X0, th[t].alloc), LAMBDA e :
           Return(t, th[t].req, X0, e.X, e.held, e.ptr, e.ok)))
    /\ th' = [th EXCEPT ![t] = Idle]
    /\ UNCHANGED calls

NextConc ==
    \E t \in Threads :
        \/ TCreate(t) \/ TSet(t) \/ TGet(t) \/ TDelete(t) \/ TRelease(t)
        \/ TLock(t) \/ TRead(t) \/ TReturn(t)

SpecConc == Init /\ [][NextConc]_vars

(***************************************************************************)
(* The concurrent specification with callers that use what a get returns:  *)
(* a get that finds the key returns entry->value after mht_unlock, and the *)
(* caller reads the value through that pointer at some later time          *)
(* (pc = "using", got: the pointer), while the other threads go on calling. *)
(***************************************************************************)
TDestroy(t) ==
    \E ht \in TableAddrs : Enter(t, "called", Req("_mht_destroy", ht, NoKey, NULL, 0))

\* The body writes the state, and the function unlocks and returns; the
\* caller of a get keeps the pointer it is given.
TReturnHold(t) ==
    /\ ~ub /\ ~exited
    /\ th[t].pc = "running"
    /\ Let(th[t].snap[1], LAMBDA X0 :
       Let(Exec(th[t].req, X0, th[t].alloc), LAMBDA e :
           /\ Return(t, th[t].req, X0, e.X, e.held, e.ptr, e.ok)
           /\ th' = [th EXCEPT ![t] =
                        IF th[t].req.op = "_mht_uint_get" /\ e.ptr # NULL
                        THEN [Idle EXCEPT !.pc = "using", !.got = e.ptr]
                        ELSE Idle]))
    /\ UNCHANGED calls

\* The caller reads the value through the pointer, without the lock; reading
\* a block that has been freed is undefined.
TUse(t) ==
    /\ ~ub /\ ~exited
    /\ th[t].pc = "using"
    /\ ub' = ~Readable(Ctx({}), th[t].got)
    /\ th' = [th EXCEPT ![t] = Idle]
    /\ UNCHANGED <<tbl, mem, mht_entries, all_get_arr_entries, atexit, exited,
                   lock, life, abs, calls>>

NextUse ==
    \E t \in Threads :
        \/ TCreate(t) \/ TSet(t) \/ TGet(t) \/ TDelete(t) \/ TDestroy(t)
        \/ TLock(t) \/ TRead(t) \/ TReturnHold(t) \/ TUse(t)

SpecUse == Init /\ [][NextUse]_vars

\* The types of the state.
TypeOK ==
    /\ \A a \in AllTableAddrs : tbl[a].size \in Nat /\ tbl[a].count \in Nat
    /\ mht_entries \in {NULL, REG_ADDR}
    /\ all_get_arr_entries \in {NULL, SNAP_ADDR}
    /\ lock \in {0, LOCK_FINALIZED} \cup Threads
    /\ \A a \in TableAddrs : life[a] \in {"never", "live", "destroyed"}

(***************************************************************************)
(* The calls a caller can make in a state, for the properties that hold of *)
(* every call: a property of a call is stated over the state the call      *)
(* starts in and the result Do gives for it.                               *)
(***************************************************************************)
\* Between two calls of the running process, with the lock free.
Callable == ~ub /\ ~exited /\ lock = 0

\* Between two calls, when the callers have a call left to make.
CanCall == Callable /\ calls < MaxCalls

Do(req, oom, alloc) == Exec(req, Ctx(oom), alloc)

\* Every set with valid arguments on a handle, with the failures of its
\* allocations: <<call, oom, alloc>>.
SetCalls(ht) ==
    {<<SetReq(ht, key, StaticBuf(c)), oom, NULL>> :
        key \in ValidKeys, c \in Contents, oom \in SetOoms}
    \cup {<<SetRawReq(ht, key, v), oom, NULL>> :
        key \in ValidKeys, v \in RawArgs \ {NULL}, oom \in SetOoms}

GetCalls(ht) == {<<GetReq(ht, key), {}, NULL>> : key \in ValidKeys}
DeleteCalls(ht) == {<<DeleteReq(ht, key), {}, NULL>> : key \in ValidKeys}
AllGetCalls(ht) ==
    {<<AllGetReq(ht, FALSE), oom, a>> :
        oom \in {{}, {<<"snapset", "entry">>}}, a \in AllGetAllocs}
DestroyCalls(ht) ==
    {<<Req("_mht_destroy", ht, NoKey, NULL, 0), {}, NULL>>,
     <<Req("_mht_destroy_without_value", ht, NoKey, NULL, 0), {}, NULL>>}
CreateCalls ==
    {<<CreateReq(op, i[1]), i[3], i[2]>> :
        op \in {"_mht_uint_create", "_mht_str_create"}, i \in CreateInputs}
ReleaseCalls ==
    {<<Req("_mht_all_release_arr", all_get_arr_entries, UintKeyUni(v), NULL, 0), {}, NULL>> :
        v \in ArrAddrs}

\* Every call on a handle that takes one, and every call.
HandleCalls(ht) ==
    SetCalls(ht) \cup GetCalls(ht) \cup DeleteCalls(ht) \cup AllGetCalls(ht)
        \cup DestroyCalls(ht)
AllCalls == CreateCalls \cup ReleaseCalls \cup UNION {HandleCalls(ht) : ht \in HandleArgs}

Run(c) == Do(c[1], c[2], c[3])

\* An entry of the state with the bytes of its key in the place of the
\* pointer to them.
Stored(entry) == DerefEntry(Ctx({}), entry)

\* Whether a table holds an entry for the key.
Present(T, key) ==
    \E i \in 1..Len(AllEntries(T)) : KeyMatches(T.key_type, Stored(AllEntries(T)[i]), key)

\* What a get of the key gives in the context X: the pointer, and whether what
\* it points to is the value v (raw: the pointer itself; managed: the bytes).
Got(X, ht, key) == Exec(GetReq(ht, key), X, NULL)
Holds(g, stored) ==
    /\ g.ptr # NULL
    /\ IF stored.raw THEN g.ptr = stored.v
       ELSE Readable(g.X, g.ptr) /\ ReadValue(g.X, g.ptr) = stored.v
NotFound(g) ==
    /\ g.ptr = NULL /\ g.X.diag
    /\ g.X.errno \in {"EINVAL", "EPERM"}
    /\ g.X.mht_errfunc \in {"_mht_uint_get", "_mht_str_get"}

\* C1: in every state between calls, a get of a key that was set, and neither
\* set again nor deleted since, returns the value of that set, a get of a key
\* that was deleted and not set since reports not-found, and so does a get of
\* a key never set; whatever was done to other keys in between, rehashes
\* included.
C1_GetReturnsLastSet ==
    Callable =>
        \A ht \in TableAddrs, key \in ValidKeys :
            LET g == Got(Ctx({}), ht, key)
            IN  IF key \in DOMAIN abs[ht] /\ ~abs[ht][key].deleted
                THEN Holds(g, abs[ht][key])
                ELSE NotFound(g)

\* A table that has grown, with a key deleted and another still set, found.
C1_Witness ==
    /\ Callable
    /\ \E ht \in handles : \E k1 \in DOMAIN abs[ht], k2 \in DOMAIN abs[ht] :
          /\ abs[ht][k1].deleted /\ ~abs[ht][k2].deleted
          /\ tbl[ht].size = 2
          /\ NotFound(Got(Ctx({}), ht, k1))
          /\ Holds(Got(Ctx({}), ht, k2), abs[ht][k2])

\* C3: whenever a public call has returned, the lock is free (every state of
\* the sequential specification in which the process runs is one between two
\* calls).
C3_LockFreeAfterReturn == ~exited => lock = 0

\* What validation must leave alone when it rejects a call.
Untouched(X) ==
    /\ ~X.ub
    /\ X.tbl = tbl
    /\ X.mem = mem
    /\ X.mht_entries = mht_entries
    /\ X.all_get_arr_entries = all_get_arr_entries

Rejected(e) ==
    /\ ~e.ok /\ e.ptr = NULL /\ ~e.held
    /\ e.X.errno # "" /\ e.X.mht_errfunc # "" /\ e.X.diag
    /\ Untouched(e.X)

Registered(ht) ==
    /\ mht_entries # NULL
    /\ LET R == tbl[mht_entries]
       IN  Find(Chain(R, hash_uint_key(ht, R.size)), KEY_TYPE_UINT, UintKeyUni(ht)) # 0

\* C6: while the process runs, every handle create has returned and no
\* destroy has accepted is a key of the Instance Registry.
C6_HandlesRegistered == ~exited => \A ht \in handles : Registered(ht)

\* C7 as stated: after every set that inserts a new key and in which no
\* allocation failed, count / size <= 0.75.
C7_LoadFactorKept ==
    CanCall =>
        \A ht \in handles : \A c \in SetCalls(ht) :
            LET e == Run(c)
            IN  (e.ok /\ ~e.X.nomem /\ ~Present(tbl[ht], c[1].key))
                    => e.X.tbl[ht].count * 4 <= 3 * e.X.tbl[ht].size

\* C7 as the code has it: a set that inserts a new key and in which no
\* allocation failed doubles the bucket count before the insert exactly when
\* count / size is above 0.75 before the insert; so after it, (count - 1) /
\* size <= 0.75 unless the table was doubled, while count / size itself may
\* be above 0.75.
C7_GrowthLagsByOne ==
    CanCall =>
        \A ht \in handles : \A c \in SetCalls(ht) :
            LET e == Run(c)
                T == tbl[ht]
                U == e.X.tbl[ht]
            IN  (e.ok /\ ~e.X.nomem /\ ~Present(T, c[1].key))
                    => /\ U.count = T.count + 1
                       /\ U.size = IF T.count * 4 > 3 * T.size THEN 2 * T.size ELSE T.size
                       /\ U.size = T.size => (U.count - 1) * 4 <= 3 * U.size

\* A table so full that the next insert doubles it, and the insert leaves
\* count / size above 0.75.
C7_Witness ==
    /\ CanCall
    /\ \E ht \in handles : \E c \in SetCalls(ht) :
          LET e == Run(c)
          IN  /\ e.ok /\ ~e.X.nomem /\ ~Present(tbl[ht], c[1].key)
              /\ e.X.tbl[ht].size = 2 * tbl[ht].size
              /\ e.X.tbl[ht].count * 4 > 3 * e.X.tbl[ht].size

\* C9: no call makes the bucket count of a table smaller, a call that
\* changes it doubles it, and get, delete, snapshot and release leave it as
\* it is; this for the user tables and the two registries.
C9_SizeOnlyDoubles ==
    CanCall =>
        \A c \in AllCalls : \A a \in AllTableAddrs :
            LET e == Run(c)
            IN  (tbl[a] # NoTable /\ e.X.tbl[a] # NoTable)
                    => /\ e.X.tbl[a].size \in {tbl[a].size, 2 * tbl[a].size}
                       /\ c \in GetCalls(c[1].ht) \cup DeleteCalls(c[1].ht)
                            => e.X.tbl[a].size = tbl[a].size

\* A table that has doubled already and that a set doubles again.
C9_Witness ==
    /\ CanCall
    /\ \E ht \in handles : \E c \in SetCalls(ht) :
          /\ tbl[ht].size = 2 /\ tbl[ht].count = 2
          /\ Run(c).X.tbl[ht].size = 4

\* C10: a set that succeeds on a key the table holds leaves count as it is
\* and a get then gives the new value; one that succeeds on a key the table
\* does not hold adds one to count; one that fails leaves count as it is.
C10_OverwriteKeepsCount ==
    CanCall =>
        \A ht \in handles : \A c \in SetCalls(ht) :
            LET e == Run(c)
                T == tbl[ht]
                U == e.X.tbl[ht]
                new == StoredValue(Ctx({}), c[1].value_data, c[1].value_size)
            IN  /\ (e.ok /\ Present(T, c[1].key))
                       => U.count = T.count /\ Holds(Got(e.X, ht, c[1].key), new)
                /\ (e.ok /\ ~Present(T, c[1].key))
                       => U.count = T.count + 1 /\ Holds(Got(e.X, ht, c[1].key), new)
                /\ ~e.ok => U.count = T.count

\* A key stored with one content that a set overwrites with another.
C10_Witness ==
    /\ CanCall
    /\ \E ht \in handles, key \in ValidKeys :
          LET e == Run(<<SetReq(ht, key, StaticBuf(2)), {}, NULL>>)
          IN  /\ Present(tbl[ht], key)
              /\ Holds(Got(Ctx({}), ht, key), [raw |-> FALSE, v |-> 1])
              /\ e.ok
              /\ e.X.tbl[ht].count = tbl[ht].count
              /\ Holds(Got(e.X, ht, key), [raw |-> FALSE, v |-> 2])


(***************************************************************************)
(* Properties of the concurrent specification.                             *)
(***************************************************************************)
KeyOf(T, entry) ==
    [key_type |-> T.key_type, uint |-> entry.key.uint, str |-> Stored(entry).key.str]

IndexOf(T, entry) ==
    IF T.key_type = KEY_TYPE_UINT THEN hash_uint_key(entry.key.uint, T.size)
    ELSE hash_str_key(Stored(entry).key.str, T.size).r

\* Every chain hangs at a bucket of the array and holds the entries of that
\* index only, no key has two entries, and count is the number of entries.
WellFormed(T) ==
    /\ \A i \in DOMAIN T.buckets :
          /\ i \in 0..(T.size - 1)
          /\ T.buckets[i] # <<>>
          /\ \A j \in 1..Len(T.buckets[i]) : IndexOf(T, T.buckets[i][j]) = i
    /\ \A i, j \in 1..Len(AllEntries(T)) :
          i # j => KeyOf(T, AllEntries(T)[i]) # KeyOf(T, AllEntries(T)[j])
    /\ T.count = Len(AllEntries(T))

\* What a table holds, as the set of its pairs of a key and a value, and the
\* same for what the completed calls have stored, in the order in which they
\* held the lock.
ValueOf(entry) ==
    IF entry.value_size = 0 THEN [raw |-> TRUE, v |-> entry.value]
    ELSE [raw |-> FALSE, v |-> mem[entry.value].data]

TableMap(T) ==
    {<<KeyOf(T, AllEntries(T)[i]), ValueOf(AllEntries(T)[i])>> : i \in 1..Len(AllEntries(T))}

AbsMap(m) ==
    {<<k, [raw |-> m[k].raw, v |-> m[k].v]>> : k \in {j \in DOMAIN m : ~m[j].deleted}}

\* The blocks that hold the copies of the values of the user tables.
ManagedBlocks ==
    UNION {{AllEntries(tbl[a])[i].value :
               i \in {j \in 1..Len(AllEntries(tbl[a])) : AllEntries(tbl[a])[j].value_size # 0}} :
           a \in TableAddrs}

InBody(t) == th[t].pc \in {"locked", "running"}

\* C2: with threads calling create, set, get and delete at the same time, at
\* most one thread is in a body and it holds the lock; every table holds
\* exactly what the calls completed so far have stored, taken in the order in
\* which they held the lock; its chains are well-formed; no block is freed
\* twice (no undefined behaviour) and the live value blocks are exactly those
\* the tables point to.
C2_Linearized ==
    /\ ~ub
    /\ \A t \in Threads : InBody(t) <=> lock = t
    /\ \A a \in AllTableAddrs : tbl[a] # NoTable => WellFormed(tbl[a])
    /\ \A ht \in TableAddrs :
          /\ tbl[ht] # NoTable <=> ht \in handles
          /\ TableMap(tbl[ht]) = AbsMap(abs[ht])
    /\ {b \in LibBlocks : mem[b].live} = ManagedBlocks

\* One thread in the body of a set while the other waits for the lock to
\* delete or set the same key of the same table, which holds it already.
C2_Witness ==
    \E t, u \in Threads :
        /\ th[t].pc = "running" /\ th[t].req.op = "_mht_uint_set"
        /\ th[u].pc = "called" /\ th[u].req.op \in {"_mht_uint_set", "_mht_uint_delete"}
        /\ th[t].req.ht = th[u].req.ht /\ th[t].req.key = th[u].req.key
        /\ th[t].req.ht \in handles
        /\ Present(tbl[th[t].req.ht], th[t].req.key)

\* A thread is inside an access to the shared state.
InAccess(t) == th[t].pc \in {"reading", "locked", "running"}

\* C4: a thread inside an access to the shared state (a table, a registry,
\* one of the two registry pointers) holds the lock, and no two threads are
\* inside such an access at the same time.
C4_AccessUnderLock ==
    /\ \A t \in Threads : InAccess(t) => lock = t
    /\ \A t, u \in Threads : (InAccess(t) /\ InAccess(u)) => t = u

(***************************************************************************)
(* Properties of the sizes.                                                *)
(***************************************************************************)
IsPowerOfTwo(n) == \E k \in 0..30 : n = 2 ^ k

\* C8: the bucket count of every table there is (user tables, mht_entries,
\* all_get_arr_entries) is a power of two, 1 or more.
C8_SizesPowersOfTwo ==
    \A a \in AllTableAddrs : tbl[a] # NoTable => IsPowerOfTwo(tbl[a].size)


(***************************************************************************)
(* Errors of usage.                                                        *)
(***************************************************************************)
\* The sets, gets and deletes on a handle with a key of the other kind than
\* the table's.
MismatchCalls(ht) ==
    {c \in SetCalls(ht) \cup GetCalls(ht) \cup DeleteCalls(ht) :
        c[1].key.key_type # tbl[ht].key_type}

\* The calls with the null string key STR_KEYT_INVALID.
InvalidKeyCalls(ht) ==
    {<<SetReq(ht, StrKeyUni(NoStr), StaticBuf(1)), {}, NULL>>,
     <<GetReq(ht, StrKeyUni(NoStr)), {}, NULL>>,
     <<DeleteReq(ht, StrKeyUni(NoStr)), {}, NULL>>}
    \cup {<<SetRawReq(ht, StrKeyUni(NoStr), v), {}, NULL>> : v \in RawArgs \ {NULL}}

\* The sets of a null value, and the managed sets with a value_size of 0.
NullValueCalls(ht) ==
    {<<SetReq(ht, key, NULL), {}, NULL>> : key \in ValidKeys}
    \cup {<<SetRawReq(ht, key, NULL), {}, NULL>> : key \in ValidKeys}
ZeroSizeCalls(ht) ==
    {<<[SetReq(ht, key, StaticBuf(1)) EXCEPT !.value_size = 0], {}, NULL>> : key \in ValidKeys}

UsageErrorCalls(ht) ==
    IF ht \notin handles THEN HandleCalls(ht)
    ELSE MismatchCalls(ht) \cup InvalidKeyCalls(ht) \cup NullValueCalls(ht)
            \cup ZeroSizeCalls(ht)

\* The call fails and nothing is as it was not: the tables (entries, count,
\* size), both registries, the heap.
FailsUntouched(e) == ~e.ok /\ e.ptr = NULL /\ Untouched(e.X)

\* C11: a call with a null or unregistered handle, a key of the wrong kind,
\* an invalid string key, a null value, or a value_size of 0 for a managed
\* set returns failure and leaves every table (entries, count, bucket count)
\* and both registries as they were.
C11_UsageErrorsMutateNothing ==
    CanCall => \A ht \in HandleArgs : \A c \in UsageErrorCalls(ht) : FailsUntouched(Run(c))

\* A string table with an entry that refuses the sets, gets and deletes with
\* an unsigned key, an invalid key, a null value and a value_size of 0.
C11_Witness ==
    /\ CanCall
    /\ \E ht \in handles :
          /\ tbl[ht].key_type = KEY_TYPE_STR /\ tbl[ht].count > 0
          /\ MismatchCalls(ht) # {}
          /\ \A c \in UsageErrorCalls(ht) : FailsUntouched(Run(c))

\* C12: a set, raw set, get or delete with an unsigned key on a table of
\* string keys, or with a string key on a table of unsigned keys, returns
\* failure (false, or no value) with errno, mht_errfunc and a diagnostic, and
\* modifies no table.
C12_WrongKeyKindRejected ==
    CanCall => \A ht \in handles : \A c \in MismatchCalls(ht) : Rejected(Run(c))

\* A table of unsigned keys and one of string keys, one of them holding an
\* entry, and each refuses the calls with the other's keys.
C12_Witness ==
    /\ CanCall
    /\ \E u \in handles, b \in handles :
          /\ tbl[u].key_type = KEY_TYPE_UINT /\ tbl[b].key_type = KEY_TYPE_STR
          /\ tbl[u].count + tbl[b].count > 0
          /\ \A ht \in {u, b} :
                /\ \E c \in MismatchCalls(ht) : c[1].op \in {"_mht_uint_get", "_mht_str_get"}
                /\ \A c \in MismatchCalls(ht) : Rejected(Run(c))

(***************************************************************************)
(* Failures of allocation.                                                 *)
(***************************************************************************)
\* C13: a set that fails because an allocation failed (of the node, of the
\* copy of the key, of the copy of the value) leaves the table as it was:
\* the same chains, the same count, the same bucket count.
C13_FailedSetMutatesNothing ==
    CanCall =>
        \A ht \in handles : \A c \in SetCalls(ht) :
            LET e == Run(c)
            IN  (~e.ok /\ e.X.nomem) => e.X.tbl[ht] = tbl[ht]

\* The entries of bucket i of table T of the context X, those of the key left
\* out, with the bytes of their keys.
RECURSIVE OthersFrom(_, _, _, _)
OthersFrom(chain, key_type, key, j) ==
    IF j > Len(chain) THEN <<>>
    ELSE (IF KeyMatches(key_type, chain[j], key) THEN <<>> ELSE <<chain[j]>>)
             \o OthersFrom(chain, key_type, key, j + 1)
Others(X, T, i, key) == OthersFrom(DerefChain(X, Chain(T, i)), T.key_type, key, 1)

\* The set is over the load factor and the array of its rehash is refused.
RehashFails(ht, c) ==
    /\ c[1].key.key_type = tbl[ht].key_type
    /\ c[2] = {<<"set", "rehash">>}
    /\ OverLoadFactor(tbl[ht])

\* Whether the heap has the blocks the set needs after the rehash.
HeapSuffices(ht, c) ==
    /\ c[1].value_size = 0 \/ FreeBlocks(Ctx({}), LibBlocks) # {}
    /\ \/ tbl[ht].key_type = KEY_TYPE_UINT
       \/ Present(tbl[ht], c[1].key)
       \/ FreeBlocks(Ctx({}), KeyBlocks) # {}

\* C14: when the allocation of the array of a rehash fails, the table keeps
\* the bucket count and, in each bucket, the entries it had, in their order;
\* the set that called the rehash goes on in the table as it is, stores its
\* key and value and returns success (unless the heap has no block left for
\* them, and then the table is as it was).
C14_RehashFailureKeepsTable ==
    CanCall =>
        \A ht \in handles : \A c \in SetCalls(ht) :
            RehashFails(ht, c) =>
                LET e == Run(c)
                    T == tbl[ht]
                    T1 == e.X.tbl[ht]
                    key == c[1].key
                IN  /\ ~e.X.ub
                    /\ T1.size = T.size
                    /\ \A i \in 0..(T.size - 1) :
                          Others(e.X, T1, i, key) = Others(Ctx({}), T, i, key)
                    /\ e.ok = HeapSuffices(ht, c)
                    /\ e.ok => /\ T1.count = T.count + (IF Present(T, key) THEN 0 ELSE 1)
                               /\ Got(e.X, ht, key).ptr # NULL
                    /\ ~e.ok => T1 = T

\* A set of a new key in a table over its load factor whose rehash fails: it
\* returns success and the table has one entry more in as many buckets.
C14_Witness ==
    /\ CanCall
    /\ \E ht \in handles : \E c \in SetCalls(ht) :
          /\ RehashFails(ht, c)
          /\ ~Present(tbl[ht], c[1].key)
          /\ tbl[ht].key_type = KEY_TYPE_STR
          /\ Run(c).ok
          /\ Run(c).X.tbl[ht].size = tbl[ht].size
          /\ Run(c).X.tbl[ht].count = tbl[ht].count + 1
          /\ Run(c).X.mht_errfunc = "mht_rehash"

(***************************************************************************)
(* Ownership of the values and of the keys.                                *)
(***************************************************************************)
\* The entry of the key in a table that holds it.
EntryOf(T, key) ==
    AllEntries(T)[CHOOSE i \in 1..Len(AllEntries(T)) :
                      KeyMatches(T.key_type, Stored(AllEntries(T)[i]), key)]

\* The deletes on a handle of a key the table holds in the mode raw (TRUE) or
\* managed (FALSE).
DeletesOf(ht, raw) ==
    {c \in DeleteCalls(ht) :
        /\ c[1].key.key_type = tbl[ht].key_type
        /\ Present(tbl[ht], c[1].key)
        /\ (EntryOf(tbl[ht], c[1].key).value_size = 0) = raw}

\* C15 as stated: a delete frees the value of a managed entry, and leaves
\* the memory a raw entry refers to allocated.
C15_DeleteKeepsRawValue ==
    CanCall =>
        \A ht \in handles :
            /\ \A c \in DeletesOf(ht, FALSE) :
                  ~Run(c).X.mem[EntryOf(tbl[ht], c[1].key).value].live
            /\ \A c \in DeletesOf(ht, TRUE) :
                  Run(c).X.mem[EntryOf(tbl[ht], c[1].key).value].live

\* C15, amended: a delete of a key the table holds succeeds and frees the
\* value of the entry in either mode: the copy of a managed entry, and the
\* block of the caller's a raw entry refers to, which was allocated until
\* then; the value of no other entry is freed.
C15_DeleteFreesValueInEitherMode ==
    CanCall =>
        \A ht \in handles : \A c \in DeletesOf(ht, TRUE) \cup DeletesOf(ht, FALSE) :
            LET e == Run(c)
                v == EntryOf(tbl[ht], c[1].key).value
            IN  /\ e.ok /\ ~e.X.ub
                /\ mem[v].live /\ ~e.X.mem[v].live
                /\ \A a \in (LibBlocks \cup CallerBlocks) \ {v} : e.X.mem[a] = mem[a]

\* A table with a raw entry whose delete frees the block of the caller's.
C15_Witness ==
    /\ CanCall
    /\ \E ht \in handles : \E c \in DeletesOf(ht, TRUE) :
          LET v == EntryOf(tbl[ht], c[1].key).value
          IN  /\ v \in CallerBlocks
              /\ Run(c).ok
              /\ mem[v].live /\ ~Run(c).X.mem[v].live

\* The buffers the entries of the tables of string keys point to.
KeysHeld ==
    UNION {{AllEntries(tbl[a])[i].key.str.ptr : i \in 1..Len(AllEntries(tbl[a]))} :
              a \in {t \in TableAddrs : tbl[t].key_type = KEY_TYPE_STR}}

\* C16: the copies of keys that are allocated are those of the entries the
\* tables hold: a delete releases the copy of the key with the node, and no
\* copy outlives its entry.
C16_KeyBuffersAreThoseOfEntries ==
    ~ub => {b \in KeyBlocks : mem[b].live} = KeysHeld

\* The copies of values a table holds, and the entries of all tables that
\* hold a block.
ManagedOf(T) ==
    {AllEntries(T)[i].value : i \in {j \in 1..Len(AllEntries(T)) : AllEntries(T)[j].value_size # 0}}
Holders(b) ==
    UNION {{<<a, i>> : i \in {j \in 1..Len(AllEntries(tbl[a])) : AllEntries(tbl[a])[j].value = b}} :
              a \in AllTableAddrs}

IsDestroy(c, with_value) ==
    c[1].op = (IF with_value THEN "_mht_destroy" ELSE "_mht_destroy_without_value")

\* The copies of values of table ht that the call c, with the result e, is
\* to free: the copy a set replaces, the copy of the entry a delete removes,
\* all of them for a destroy with values, none otherwise.
FreedBy(ht, c, e) ==
    LET T == tbl[ht]
        hit == /\ c[1].key.key_type = T.key_type
               /\ Present(T, c[1].key)
               /\ EntryOf(T, c[1].key).value_size # 0
    IN  IF ~e.ok THEN {}
        ELSE IF IsDestroy(c, TRUE) THEN ManagedOf(T)
        ELSE IF c \in SetCalls(ht) \cup DeleteCalls(ht) /\ hit
        THEN {EntryOf(T, c[1].key).value}
        ELSE {}

\* C17 as stated: every copy of a value is freed by the overwrite, by the
\* delete, or when its table is destroyed: after a destroy, of either kind,
\* none of the copies the table held is allocated.
C17_NoCopyOutlivesItsTable ==
    CanCall =>
        \A ht \in handles : \A c \in DestroyCalls(ht) :
            LET e == Run(c)
            IN  e.ok => \A b \in ManagedOf(tbl[ht]) : ~e.X.mem[b].live

\* C17, amended: a copy of a value is allocated and held by one entry only,
\* and it is freed once: by the set that replaces it, by the delete of its
\* key, or by mht_destroy of its table.  No other call frees it, and after
\* _mht_destroy_without_value the copies the table held are still allocated.
C17_CopiesFreedOnceUnlessKept ==
    CanCall =>
        \A ht \in handles :
            /\ \A b \in ManagedOf(tbl[ht]) : mem[b].live /\ Cardinality(Holders(b)) = 1
            /\ \A c \in HandleCalls(ht) :
                  LET e == Run(c)
                  IN  /\ ~e.X.ub
                      /\ {b \in ManagedOf(tbl[ht]) : ~e.X.mem[b].live} = FreedBy(ht, c, e)
                      /\ \A a \in handles \ {ht} : \A b \in ManagedOf(tbl[a]) :
                            e.X.mem[b] = mem[b]
                      /\ e.X.tbl[ht] # NoTable =>
                            ManagedOf(tbl[ht]) \ FreedBy(ht, c, e) \subseteq ManagedOf(e.X.tbl[ht])

\* A table with a copy of a value: mht_destroy frees the copy, and
\* _mht_destroy_without_value leaves it allocated.
C17_Witness ==
    /\ CanCall
    /\ \E ht \in handles : \E b \in ManagedOf(tbl[ht]) : \A c \in DestroyCalls(ht) :
          /\ Run(c).ok
          /\ Run(c).X.tbl[ht] = NoTable
          /\ Run(c).X.mem[b].live = IsDestroy(c, FALSE)

\* The values and the copies of keys of the entries of a table.
ValuesHeld(T) == {AllEntries(T)[i].value : i \in 1..Len(AllEntries(T))}
KeysOfTable(T) ==
    IF T.key_type = KEY_TYPE_STR
    THEN {AllEntries(T)[i].key.str.ptr : i \in 1..Len(AllEntries(T))}
    ELSE {}

DestroyWithoutValueCall(ht) == <<Req("_mht_destroy_without_value", ht, NoKey, NULL, 0), {}, NULL>>

\* C18: _mht_destroy_without_value of a registered table all of whose
\* entries are raw frees the table (its entries, its copies of keys, its
\* array, its record, its place in the Instance Registry) and none of the
\* values: what the entries referred to is allocated and holds what it held.
C18_DestroyWithoutValueKeepsRaw ==
    CanCall =>
        \A ht \in handles :
            (Registered(ht) /\ tbl[ht].count > 0 /\ ManagedOf(tbl[ht]) = {}) =>
                LET e == Run(DestroyWithoutValueCall(ht))
                IN  /\ e.ok /\ ~e.X.ub
                    /\ e.X.tbl[ht] = NoTable
                    /\ \A k \in KeysOfTable(tbl[ht]) : ~e.X.mem[k].live
                    /\ \A v \in ValuesHeld(tbl[ht]) : mem[v].live /\ e.X.mem[v] = mem[v]
                    /\ ~Present(e.X.tbl[mht_entries], UintKeyUni(ht))

\* A table of string keys with a raw entry: after _mht_destroy_without_value
\* the copy of the key is freed and the block of the caller's is not.
C18_Witness ==
    /\ CanCall
    /\ \E ht \in handles :
          /\ Registered(ht) /\ ManagedOf(tbl[ht]) = {}
          /\ \E k \in KeysOfTable(tbl[ht]), v \in ValuesHeld(tbl[ht]) :
                LET e == Run(DestroyWithoutValueCall(ht))
                IN  /\ e.ok /\ e.X.tbl[ht] = NoTable
                    /\ mem[k].live /\ ~e.X.mem[k].live
                    /\ v \in CallerBlocks /\ e.X.mem[v].live

\* The entries of the tables of string keys whose key is at the pointer p.
KeyHolders(p) ==
    UNION {{<<a, i>> : i \in {j \in 1..Len(AllEntries(tbl[a])) :
                                 AllEntries(tbl[a])[j].key.str.ptr = p}} :
              a \in {t \in TableAddrs : tbl[t].key_type = KEY_TYPE_STR}}

\* C19: between two calls, when the caller has overwritten or freed the
\* buffer of every key it has passed, each entry of a table of string keys
\* points to a copy of its key that is the table's own: an allocated block of
\* the heap that no other entry points to and that holds the bytes of the key
\* it was set with.  So the entry is in the bucket of those bytes, also after
\* a rehash, a get of the key gives the value set, and a get of a key not set
\* finds nothing.
C19_StoredKeyIsOwnCopy ==
    Callable =>
        \A ht \in {a \in handles : tbl[a].key_type = KEY_TYPE_STR} :
            /\ \A i \in DOMAIN tbl[ht].buckets : \A j \in 1..Len(tbl[ht].buckets[i]) :
                  LET entry == tbl[ht].buckets[i][j]
                      key == KeyOf(tbl[ht], entry)
                  IN  /\ entry.key.str.ptr \in KeyBlocks
                      /\ mem[entry.key.str.ptr].live
                      /\ Cardinality(KeyHolders(entry.key.str.ptr)) = 1
                      /\ key \in DOMAIN abs[ht] /\ ~abs[ht][key].deleted
                      /\ IndexOf(tbl[ht], entry) = i
                      /\ Holds(Got(Ctx({}), ht, key), abs[ht][key])
            /\ \A k \in ValidStrKeys :
                  ~Present(tbl[ht], StrKeyUni(k)) => NotFound(Got(Ctx({}), ht, StrKeyUni(k)))

\* A table of string keys that has been rehashed from one bucket to two and
\* holds two keys, each found under its own bytes.
C19_Witness ==
    /\ Callable
    /\ \E ht \in handles :
          /\ tbl[ht].key_type = KEY_TYPE_STR
          /\ tbl[ht].size > 1 /\ tbl[ht].count > 1
          /\ \A i \in 1..Len(AllEntries(tbl[ht])) :
                LET key == KeyOf(tbl[ht], AllEntries(tbl[ht])[i])
                IN  /\ AllEntries(tbl[ht])[i].key.str.ptr \in KeyBlocks
                    /\ Holds(Got(Ctx({}), ht, key), abs[ht][key])

(***************************************************************************)
(* Snapshots.                                                              *)
(***************************************************************************)
\* How many places of a sequence hold v, and how many entries of a table.
Times(seq, v) == Cardinality({i \in 1..Len(seq) : seq[i] = v})
EntriesWith(T, v) == Cardinality({i \in 1..Len(AllEntries(T)) : AllEntries(T)[i].value = v})

\* C20: a snapshot that succeeds returns an array and a count: the count is
\* the count of the table, the array has as many elements, and its elements
\* are the values of the entries of the table, each entry once; the table is
\* as it was.
C20_SnapshotHoldsEachValueOnce ==
    CanCall =>
        \A ht \in handles : \A c \in AllGetCalls(ht) :
            LET e == Run(c)
                arr == e.X.mem[e.ptr].data
            IN  e.ok =>
                    /\ ~e.X.ub
                    /\ e.count = tbl[ht].count
                    /\ e.X.mem[e.ptr].live
                    /\ Len(arr) = e.count
                    /\ \A v \in ValuesHeld(tbl[ht]) \cup {arr[i] : i \in 1..Len(arr)} :
                          Times(arr, v) = EntriesWith(tbl[ht], v)
                    /\ e.X.tbl[ht] = tbl[ht]

\* A snapshot of a table with two entries, in raw and in managed mode, that
\* gives the two values.
C20_Witness ==
    /\ CanCall
    /\ \E ht \in handles : \E c \in AllGetCalls(ht) :
          /\ tbl[ht].count = 2
          /\ ManagedOf(tbl[ht]) # {} /\ ManagedOf(tbl[ht]) # ValuesHeld(tbl[ht])
          /\ Run(c).ok
          /\ Run(c).count = 2
          /\ {Run(c).X.mem[Run(c).ptr].data[i] : i \in 1..2} = ValuesHeld(tbl[ht])

\* The release of the array at address a, as the caller writes it.
ReleaseCall(a) ==
    <<Req("_mht_all_release_arr", all_get_arr_entries, UintKeyUni(a), NULL, 0), {}, NULL>>

\* C21: the release of an array a snapshot has returned, and that has not
\* been released, succeeds and frees the array; the release of an array that
\* has been released (or that no snapshot has returned) fails and frees
\* nothing.
C21_ReleaseOnceThenNotFound ==
    CanCall =>
        \A a \in ArrAddrs :
            LET e == Run(ReleaseCall(a))
            IN  IF mem[a].live
                THEN e.ok /\ ~e.X.ub /\ ~e.X.mem[a].live
                ELSE ~e.ok /\ Untouched(e.X)

\* Whether the array is a key of the Snapshot Registry.
Tracked(a) ==
    /\ all_get_arr_entries # NULL
    /\ Present(tbl[all_get_arr_entries], UintKeyUni(a))

\* C22: while the process runs, every array a snapshot has returned and that
\* has not been released is a key of the Snapshot Registry.
C22_SnapshotsTracked ==
    Callable => \A a \in ArrAddrs : mem[a].live => Tracked(a)
(***************************************************************************)
(* The end of the process.                                                 *)
(***************************************************************************)

\* The tables that are keys of the Instance Registry: tables of the caller
\* and the Snapshot Registry, which init creates as it creates them.
RegisteredTables == {a \in TableAddrs \cup {SNAP_ADDR} : Registered(a)}

\* C23: the sweep of quit destroys every table that is a key of the Instance
\* Registry, then the Instance Registry, then finalizes the lock: after it
\* no table that was registered is live, the Instance Registry is gone and
\* the lock is finalized.
C23_SweepDestroysRegistered ==
    [][(~exited /\ exited' /\ atexit /\ ~ub')
          => /\ \A a \in RegisteredTables : tbl'[a] = NoTable
             /\ tbl'[REG_ADDR] = NoTable /\ mht_entries' = NULL
             /\ lock' = LOCK_FINALIZED]_vars

\* The process has ended by the sweep, which found two tables to destroy.
C23_Witness ==
    /\ exited /\ atexit /\ ~ub
    /\ lock = LOCK_FINALIZED
    /\ \A a \in TableAddrs : life[a] = "live" /\ tbl[a] = NoTable
    /\ tbl[SNAP_ADDR] = NoTable

\* The blocks a table owns: the copies of its managed values and of its
\* string keys.
OwnedBlocks(T) ==
    UNION {{AllEntries(T)[i].value : i \in {j \in 1..Len(AllEntries(T)) :
                                              AllEntries(T)[j].value_size > 0}}
             \cup ({AllEntries(T)[i].key.str.ptr : i \in 1..Len(AllEntries(T))} \ {NULL})}

\* C24: the sweep of quit frees no block twice, also when a table left to it
\* holds in raw mode the handle of another registered table or a tracked
\* snapshot array, and after it no snapshot array and no block owned by a
\* table that was registered is allocated.
C24_SweepFreesOnce ==
    [][(~exited /\ exited' /\ atexit)
          => /\ ~ub'
             /\ \A a \in ArrAddrs : ~mem'[a].live
             /\ \A a \in RegisteredTables : \A b \in OwnedBlocks(tbl[a]) : ~mem'[b].live]_vars

(***************************************************************************)
(* The two signals of an error.                                            *)
(***************************************************************************)
\* Whether the call returns the value that tells its failure: NULL for
\* create, get and snapshot, false for set, delete and release.  The
\* destroys return nothing.
ReturnsFailure(c, e) ==
    IF c[1].op \in {"_mht_uint_create", "_mht_str_create", "_mht_uint_get", "_mht_str_get",
                    "_mht_all_get"}
    THEN e.ptr = NULL
    ELSE IF c[1].op \in {"_mht_destroy", "_mht_destroy_without_value"}
    THEN FALSE
    ELSE ~e.ok

\* C25: every public call that returns its failure value has set errno to a
\* code that is not zero and mht_errfunc to a name.
C25_FailureSetsBothSignals ==
    CanCall =>
        \A c \in AllCalls \cup UNION {UsageErrorCalls(ht) : ht \in handles} :
            LET e == Run(c)
            IN  (ReturnsFailure(c, e) /\ ~e.X.ub /\ ~e.X.exited)
                    => e.X.errno # "" /\ e.X.mht_errfunc # ""

(***************************************************************************)
(* The lock is not reentrant.                                              *)
(***************************************************************************)
\* The next step of thread t starts with mht_lock: t is between two calls of
\* the running process and has a call left to make, or is the main thread
\* and its return runs quit, whose first statement is _mht_destroy.
WillAcquire(t) ==
    /\ ~ub /\ ~exited
    /\ th[t].pc = "idle"
    /\ calls < MaxCalls \/ (t = Main /\ atexit)

\* C26: no thread whose next step acquires the lock holds it.
C26_NoAcquireWhileHolding ==
    \A t \in Threads : WillAcquire(t) => lock # t

(***************************************************************************)
(* The bootstrap of the Instance Registry.                                 *)
(***************************************************************************)
\* The number of trials of init that fail before one succeeds, when the
\* allocations of oom fail.
RECURSIVE FailedTrials(_, _)
FailedTrials(oom, i) ==
    IF i >= MHT_ENTRIES_TRIAL \/ Trial(i) \notin oom THEN i
    ELSE FailedTrials(oom, i + 1)

\* The create allocates its own table, and so goes on to init.
OwnTableMade(c) ==
    c[1].size # 0 /\ c[3] # NULL /\ <<"user", "buckets">> \notin c[2]

\* The first create of the process, with k trials failing, where a trial
\* that succeeds after k failures makes a registry of size(k) buckets.
Bootstrap(c, size(_)) ==
    LET e == Run(c)
        k == FailedTrials(c[2], 0)
    IN  /\ e.ptr # NULL
            => /\ ~e.X.exited /\ e.X.mht_entries = REG_ADDR
               /\ e.X.tbl[REG_ADDR].size = size(k)
        /\ (OwnTableMade(c) /\ k < MHT_ENTRIES_TRIAL) => ~e.X.exited /\ e.ptr # NULL
        /\ (OwnTableMade(c) /\ k = MHT_ENTRIES_TRIAL)
            => e.X.exited /\ e.ptr = NULL /\ e.X.mht_entries = NULL

DoubledSize(k) == MHT_ENTRIES_INITIAL_SIZE * 2 ^ k
SameSize(k) == MHT_ENTRIES_INITIAL_SIZE

\* C27 as stated: the first create bootstraps the Instance Registry in at
\* most MHT_ENTRIES_TRIAL trials, each of twice the size of the one before;
\* when all fail the process exits; and no handle exists while the registry
\* does not.
C27_BootstrapDoublesSize ==
    /\ (~exited /\ \E a \in TableAddrs : life[a] # "never") => mht_entries # NULL
    /\ (CanCall /\ mht_entries = NULL)
          => \A c \in CreateCalls : Bootstrap(c, DoubledSize)

\* C27: the first create bootstraps the Instance Registry in at most
\* MHT_ENTRIES_TRIAL trials, each of MHT_ENTRIES_INITIAL_SIZE buckets; when
\* all fail the process exits; and no handle exists while the registry does
\* not.
C27_BootstrapRetriesSameSize ==
    /\ (~exited /\ \E a \in TableAddrs : life[a] # "never") => mht_entries # NULL
    /\ (CanCall /\ mht_entries = NULL)
          => \A c \in CreateCalls : Bootstrap(c, SameSize)

\* Before the first create: one whose first trial fails and whose second
\* makes the registry, and one whose trials all fail.
C27_Witness ==
    /\ CanCall /\ mht_entries = NULL
    /\ \E c \in CreateCalls :
          /\ c[2] = {Trial(0)}
          /\ Run(c).ptr # NULL /\ Run(c).X.tbl[REG_ADDR].size = MHT_ENTRIES_INITIAL_SIZE
    /\ \E c \in CreateCalls : c[2] = AllTrials /\ Run(c).X.exited

(***************************************************************************)
(* The structure of a table.                                               *)
(***************************************************************************)
\* The tables of the caller and the two registries that exist.
LiveTables == {a \in AllTableAddrs : tbl[a] # NoTable}

\* C28: in every state the process can be in between two calls, in every
\* table each entry is in the chain of the bucket its key hashes to, no key
\* has two entries and count is the number of the entries.
C28_TablesWellFormed ==
    ~ub => \A a \in LiveTables : WellFormed(tbl[a])

\* A table of two buckets that has had two entries and has lost one of them
\* by a delete.
C28_Witness ==
    /\ ~ub /\ ~exited
    /\ \E ht \in handles :
          /\ tbl[ht].size = 2 /\ tbl[ht].count = 1
          /\ \E k \in DOMAIN abs[ht] : abs[ht][k].deleted
          /\ Cardinality(DOMAIN abs[ht]) = 2

\* The entries of a table, wherever they hang: keys (and the pointers to
\* their bytes), values and sizes of values.
EntrySet(T) == {AllEntries(T)[i] : i \in 1..Len(AllEntries(T))}

\* mht_rehash of table a in the state, with the new array allocated.
Rehashed(a) == mht_rehash(Ctx({}), a, <<"set", "rehash">>)

\* C29: a rehash that succeeds leaves a table with the same entries (keys,
\* values, modes) and the same count in twice the buckets, and leaves the
\* heap and the other tables as they are.
C29_RehashPreservesContents ==
    ~ub =>
        \A a \in LiveTables :
            LET X == Rehashed(a)
            IN  /\ ~X.ub /\ X.errno = ""
                /\ EntrySet(X.tbl[a]) = EntrySet(tbl[a])
                /\ Len(AllEntries(X.tbl[a])) = Len(AllEntries(tbl[a]))
                /\ X.tbl[a].count = tbl[a].count
                /\ X.tbl[a].key_type = tbl[a].key_type
                /\ X.tbl[a].size = 2 * tbl[a].size
                /\ X.mem = mem
                /\ \A b \in AllTableAddrs \ {a} : X.tbl[b] = tbl[b]

\* A table with a managed and a raw entry in one chain, which a rehash
\* parts.
C29_Witness ==
    /\ ~ub /\ ~exited
    /\ \E a \in handles :
          /\ tbl[a].size = 1 /\ tbl[a].count = 2
          /\ \E e1, e2 \in EntrySet(tbl[a]) : e1.value_size = 0 /\ e2.value_size # 0
          /\ Cardinality(DOMAIN Rehashed(a).tbl[a].buckets) = 2

(***************************************************************************)
(* The order of the entries in a chain.                                    *)
(***************************************************************************)
\* The key of an entry of table T in the context X.
KeyIn(X, T, entry) ==
    [key_type |-> T.key_type, uint |-> entry.key.uint, str |-> DerefEntry(X, entry).key.str]

\* In table T the entry of k1 is in the chain of the entry of k2 and nearer
\* to its head.
KeyBefore(X, T, k1, k2) ==
    \E i \in DOMAIN T.buckets : \E p, q \in 1..Len(T.buckets[i]) :
        /\ p < q
        /\ KeyIn(X, T, T.buckets[i][p]) = k1
        /\ KeyIn(X, T, T.buckets[i][q]) = k2

\* The keys of T, and the heads of its chains.
KeysIn(X, T) == {KeyIn(X, T, AllEntries(T)[i]) : i \in 1..Len(AllEntries(T))}
HeadKeys(X, T) == {KeyIn(X, T, T.buckets[i][1]) : i \in DOMAIN T.buckets}

\* From T to U (in X) every two entries that share a chain in both keep
\* their order, or every two change it.
OrderKept(T, X, U) ==
    \A k1, k2 \in KeysIn(Ctx({}), T) :
        ~(KeyBefore(Ctx({}), T, k1, k2) /\ KeyBefore(X, U, k2, k1))
OrderReversed(T, X, U) ==
    \A k1, k2 \in KeysIn(Ctx({}), T) :
        ~(KeyBefore(Ctx({}), T, k1, k2) /\ KeyBefore(X, U, k1, k2))

\* A set or delete of the key of call c, giving e, links a new entry at the
\* head of its chain; rehashed tells what becomes of the order of the others
\* when the set has doubled the table.
ChainOrderStep(ht, c, e, rehashed(_, _, _)) ==
    LET T == tbl[ht]
        U == e.X.tbl[ht]
        new == KeysIn(e.X, U) \ KeysIn(Ctx({}), T)
    IN  ~e.X.ub =>
            /\ new \subseteq HeadKeys(e.X, U)
            /\ IF U.size = T.size THEN OrderKept(T, e.X, U) ELSE rehashed(T, e.X, U)

\* A snapshot lists the values chain by chain, each chain from its head.
SnapshotInChainOrder(ht, e) ==
    e.ok => \A i \in 1..Len(AllEntries(tbl[ht])) :
                e.X.mem[e.ptr].data[i] = AllEntries(tbl[ht])[i].value

\* C30 as stated: a set links a new entry at the head of its chain, and set
\* and delete, rehashes included, keep the order of the entries that share a
\* chain, so that every chain is ordered from the entry inserted last to the
\* one inserted first; a snapshot lists the values of a chain in that order.
C30_ChainsNewestFirst ==
    CanCall =>
        \A ht \in handles :
            /\ \A c \in SetCalls(ht) \cup DeleteCalls(ht) :
                  ChainOrderStep(ht, c, Run(c), OrderKept)
            /\ \A c \in AllGetCalls(ht) : SnapshotInChainOrder(ht, Run(c))

\* C30: a set links a new entry at the head of its chain; set and delete keep
\* the order of the entries that share a chain, but for a set that doubles
\* the table, which reverses the order of the entries that share a chain
\* before and after; a snapshot lists the values of a chain from its head.
C30_ChainOrderReversedByRehash ==
    CanCall =>
        \A ht \in handles :
            /\ \A c \in SetCalls(ht) \cup DeleteCalls(ht) :
                  ChainOrderStep(ht, c, Run(c), OrderReversed)
            /\ \A c \in AllGetCalls(ht) : SnapshotInChainOrder(ht, Run(c))

\* A table with two entries in one chain which a set doubles, the two
\* sharing a chain again, in the other order.
C30_Witness ==
    /\ CanCall
    /\ \E ht \in handles : \E c \in SetCalls(ht) :
          \E k1, k2 \in KeysIn(Ctx({}), tbl[ht]) :
              /\ Run(c).X.tbl[ht].size = 2 * tbl[ht].size
              /\ KeyBefore(Ctx({}), tbl[ht], k1, k2)
              /\ KeyBefore(Run(c).X, Run(c).X.tbl[ht], k2, k1)

(***************************************************************************)
(* What the calls that only read leave alone.                              *)
(***************************************************************************)
\* The calls on a handle that read its table: the gets, the deletes of a key
\* the table does not hold, and the snapshots (with and without a place for
\* the count).
ReadingCalls(ht) ==
    GetCalls(ht) \cup {c \in DeleteCalls(ht) : ~Present(tbl[ht], c[1].key)}
        \cup AllGetCalls(ht) \cup {<<AllGetReq(ht, TRUE), {}, NULL>>}

\* C31: a get, a delete of a key the table does not hold and a snapshot leave
\* every table of the caller as it is (entries, count, bucket count) and
\* the blocks of the values and of the keys too.
C31_ReadsChangeNoTable ==
    CanCall =>
        \A ht \in handles : \A c \in ReadingCalls(ht) :
            LET e == Run(c)
            IN  /\ ~e.X.ub
                /\ \A a \in TableAddrs : e.X.tbl[a] = tbl[a]
                /\ \A b \in LibBlocks \cup CallerBlocks \cup KeyBlocks : e.X.mem[b] = mem[b]

\* A table with two entries in one chain, where a get finds the second, and
\* of which a snapshot succeeds.
C31_Witness ==
    /\ CanCall
    /\ \E ht \in handles :
          /\ \E i \in DOMAIN tbl[ht].buckets : Len(tbl[ht].buckets[i]) = 2
          /\ \E c \in GetCalls(ht) : Run(c).ptr = AllEntries(tbl[ht])[2].value
          /\ \E c \in AllGetCalls(ht) : Run(c).ok

(***************************************************************************)
(* What an overwrite leaves alone.                                         *)
(***************************************************************************)
\* The entries of T, in the context X, but the one of the key.
OtherEntries(X, T, key) ==
    {en \in EntrySet(T) : ~KeyMatches(T.key_type, DerefEntry(X, en), key)}

\* The sets on a handle that overwrite: the table holds the key and the set
\* succeeds.
Overwrites(ht) ==
    {c \in SetCalls(ht) : Present(tbl[ht], c[1].key) /\ Run(c).ok}

\* From T to U (in X) the bucket array is the same, and so is every entry in
\* its place, but for the value and the mode of the entry of the key.
InPlace(T, X, U, key) ==
    /\ U.size = T.size
    /\ DOMAIN U.buckets = DOMAIN T.buckets
    /\ \A i \in DOMAIN T.buckets :
          /\ Len(U.buckets[i]) = Len(T.buckets[i])
          /\ \A p \in 1..Len(T.buckets[i]) :
                IF KeyMatches(T.key_type, DerefEntry(X, T.buckets[i][p]), key)
                THEN U.buckets[i][p].key = T.buckets[i][p].key
                ELSE U.buckets[i][p] = T.buckets[i][p]

\* After the overwrite c, giving e, the table has the count it had and the
\* other entries it had, with the values they had, and the entry of the key
\* holds the new value in the new mode.
OverwriteKeepsTheRest(ht, c, e) ==
    LET T == tbl[ht]
        U == e.X.tbl[ht]
        key == c[1].key
        mine == EntrySet(U) \ OtherEntries(e.X, U, key)
    IN  /\ ~e.X.ub
        /\ U.count = T.count /\ U.key_type = T.key_type
        /\ OtherEntries(e.X, U, key) = OtherEntries(Ctx({}), T, key)
        /\ \A en \in OtherEntries(Ctx({}), T, key) :
              en.value_size # 0 => e.X.mem[en.value] = mem[en.value]
        /\ Cardinality(mine) = 1
        /\ \A en \in mine :
              /\ en.value_size = c[1].value_size
              /\ IF c[1].value_size = 0 THEN en.value = c[1].value_data
                 ELSE /\ e.X.mem[en.value].live
                      /\ e.X.mem[en.value].data = ReadValue(Ctx({}), c[1].value_data)

\* C32 as stated: a set that overwrites leaves the bucket count, the count,
\* the place of the entry in its chain and every other entry as they are,
\* and changes the value and the mode of the entry.
C32_OverwriteInPlace ==
    CanCall =>
        \A ht \in handles : \A c \in Overwrites(ht) :
            /\ OverwriteKeepsTheRest(ht, c, Run(c))
            /\ InPlace(tbl[ht], Run(c).X, Run(c).X.tbl[ht], c[1].key)

\* C32: a set that overwrites leaves the count and every other entry as they
\* are and changes the value and the mode of the entry; it leaves the bucket
\* array and the places of the entries as they are unless count / size is
\* above 0.75 before it, when it doubles the table first as an insert does
\* (if the new array can be allocated).
C32_OverwriteInPlaceUnlessGrown ==
    CanCall =>
        \A ht \in handles : \A c \in Overwrites(ht) :
            /\ OverwriteKeepsTheRest(ht, c, Run(c))
            /\ IF tbl[ht].count * 4 > 3 * tbl[ht].size /\ <<"set", "rehash">> \notin c[2]
               THEN Run(c).X.tbl[ht].size = 2 * tbl[ht].size
               ELSE InPlace(tbl[ht], Run(c).X, Run(c).X.tbl[ht], c[1].key)

\* A table whose load is above 0.75, where a raw set overwrites a managed
\* entry and doubles the table.
C32_Witness ==
    /\ CanCall
    /\ \E ht \in handles : \E c \in Overwrites(ht) :
          /\ tbl[ht].count * 4 > 3 * tbl[ht].size
          /\ c[2] = {}
          /\ c[1].value_size = 0
          /\ \E en \in EntrySet(tbl[ht]) \ OtherEntries(Ctx({}), tbl[ht], c[1].key) :
                en.value_size # 0
          /\ Run(c).X.tbl[ht].size = 2 * tbl[ht].size

(***************************************************************************)
(* An overwrite with the pointer the entry holds.                          *)
(***************************************************************************)
\* The entry of the key in T, in the context X (a set of one entry, or none).
EntryFor(X, T, key) == EntrySet(T) \ OtherEntries(X, T, key)

\* The sets of a key with the pointer its entry holds: set_raw(k, p) on an
\* entry that holds p in raw mode, and a managed set of the pointer a get of
\* the key returns, on an entry in managed mode.
SamePointerCalls(ht) ==
    UNION {{IF en.value_size = 0
            THEN <<SetRawReq(ht, key, en.value), {}, NULL>>
            ELSE <<SetReq(ht, key, en.value), {}, NULL>> :
                en \in EntryFor(Ctx({}), tbl[ht], key)} :
           key \in {k \in ValidKeys : k.key_type = tbl[ht].key_type}}

\* C33: a set of a key with the pointer its entry holds reads no freed
\* memory, and the entry afterwards holds a value that is allocated, with
\* the content it had.
C33_OverwriteWithStoredPointer ==
    CanCall =>
        \A ht \in handles : \A c \in SamePointerCalls(ht) :
            LET e == Run(c)
                old == mem[c[1].value_data].data
            IN  /\ ~e.X.ub
                /\ e.ok =>
                      \A en \in EntryFor(e.X, e.X.tbl[ht], c[1].key) :
                          /\ Readable(e.X, en.value)
                          /\ e.X.mem[en.value].data = old

(***************************************************************************)
(* The pointer a get returns.                                              *)
(***************************************************************************)
\* C34: while a thread uses the pointer a get has returned for a managed
\* entry, the pointer refers to an allocated block, whatever the other
\* threads call in the meantime.
C34_GotPointerStaysAllocated ==
    \A t \in Threads : th[t].pc = "using" => mem[th[t].got].live

====
